---- MODULE Spec2Model ----
(***************************************************************************)
(* Pump dispense orchestration of the bartender repository.                *)
(*                                                                         *)
(*   Pi5 service      apps/Pi5/pi_app: DispenseManager (semaphore gate,    *)
(*                    queue_depth, current_run_id) over PumpController     *)
(*                    (RLock, worker threads, pins, cooldown stamps).      *)
(*   firmware         apps/firmware/routes.py: the /iot/drink handler that *)
(*                    runs one run_pump coroutine per step under gather.   *)
(*   sequential runs  the step loops of Pi5 run_steps, firmware            *)
(*                    hardware/pumps.py and backend services/dispenser.py. *)
(*                                                                         *)
(* Each action is one slice of the asyncio event loop (from one suspension *)
(* point of a coroutine to its next one) or one step of a worker thread.   *)
(* Durations are abstract integer units; optional numbers use None.        *)
(***************************************************************************)
EXTENDS Integers, Sequences, FiniteSets, TLC

(* ------------------------------ bounds ------------------------------- *)

\* concurrent /dispense requests in Spec
NRuns == 2
\* longest step list of a request
MaxSteps == 2
\* defaults.max_run_seconds of the modelled mapping file
MaxRunSeconds == 2
\* largest settings.max_parallel_jobs explored
MaxParallelJobs == 2
\* concurrent /dispense requests in SpecGate
NGateRuns == 3
\* concurrent direct callers of PumpController.dispense in SpecController
NDirect == 2

(* --------------------------- configuration --------------------------- *)

None == -1

\* PumpMapping.pumps of the modelled mapping file: pump id -> GPIO pin
mapping_pumps == ("a" :> 1) @@ ("b" :> 2)

\* PumpMapping.flow_rates_ml_per_second: pump "b" has no flow rate
flow_rates_ml_per_second == ("a" :> 1)

\* PumpDefaults
prime_time_seconds == 1
post_dispense_delay_seconds == 1
max_run_seconds == MaxRunSeconds

get_flow_rate(pump) ==
    IF pump \in DOMAIN flow_rates_ml_per_second
    THEN flow_rates_ml_per_second[pump] ELSE None

\* no calibration entries in the modelled mapping: the default factor
get_correction_factor(pump) == 1

Truthy(x) == x # None /\ x # 0

\* requests that go through DispenseManager.dispense_steps
Run == 1..(IF NRuns > NGateRuns THEN NRuns ELSE NGateRuns)
\* requests to /pumps/{pump}/prime or /pumps/{pump}/calibrate
Direct == {-1 - d : d \in 1..NDirect}
Caller == Run \cup Direct
NoOwner == None
Pin == {mapping_pumps[p] : p \in DOMAIN mapping_pumps}

\* pump ids a request may name: "x" is not in the mapping
PumpNames == {"a", "b", "x"}
SecondsVals == {1, MaxRunSeconds + 1}

NoStep == [pump |-> "", seconds |-> 0]

(* ------------------------------- state ------------------------------- *)

VARIABLES
    max_parallel_jobs,   \* settings.max_parallel_jobs
    hardware_available,  \* PumpController._hardware_available
    pc,                  \* per caller: where its coroutine is suspended
    todo,                \* per caller: normalized steps not yet started
    cur,                 \* per caller: the step of its latest dispense() call
    pause,               \* per run: pause handed to run_steps
    results,             \* per caller: run_steps' results list
    resp,                \* per caller: the HTTP response
    thr,                 \* per caller: its worker thread inside _run_pump
    semaphore,           \* DispenseManager._semaphore: free permits
    waiters,             \* DispenseManager._semaphore: FIFO of suspended acquirers
    queue_depth,         \* DispenseManager._queue_depth
    current_run_id,      \* DispenseManager._current_run_id (None or a run)
    lock,                \* PumpController._lock owner
    pin,                 \* GPIO output level per pin
    cooldowns,           \* PumpController._cooldowns: pump -> the call that stamped it
    activations,         \* history: per caller, pin activations its threads began
    actOrder             \* history: runs in the order their activations began

pi5vars == <<max_parallel_jobs, hardware_available, pc, todo, cur, pause, results,
             resp, thr, semaphore, waiters, queue_depth, current_run_id, lock, pin,
             cooldowns, activations, actOrder>>

\* firmware /iot/drink handler (apps/firmware/routes.py)
VARIABLES
    GPIO_AVAILABLE,      \* whether RPi.GPIO could be imported
    handler,             \* per request: where receive_drink_request is
    pump_tasks,          \* per request: state of each run_pump() coroutine
    closure,             \* per request: the cells pin, duration that run_pump reads
    pins_to_control,     \* per request: the set of pins it resolved
    gpio,                \* RPi.GPIO channel state per pin: "IN", "LOW" or "HIGH"
    task_pins,           \* history: per request, the pin each task was appended for
    skipped,             \* history: per request, steps skipped for want of a pin
    holds_requested      \* history: per request, how many of its steps name a pump
                         \* that has a pin

fwhist == <<task_pins, skipped, holds_requested>>

fwvars == <<GPIO_AVAILABLE, handler, pump_tasks, closure, pins_to_control, gpio,
            fwhist>>

\* one sequential run (Pi5 run_steps, firmware dispense_steps, backend
\* dispense_sequence)
VARIABLES
    impl,                \* which of the three loops runs
    seq_pc,              \* where the loop is
    seq_steps,           \* the submitted steps
    seq_idx,             \* 1-based index of the step being handled
    seq_pause,           \* pause_between
    events               \* history: starts and ends of activations, and pauses, in order

seqvars == <<impl, seq_pc, seq_steps, seq_idx, seq_pause, events>>

\* PumpController (Pi5) worker threads against the monotonic clock
VARIABLES
    now,                 \* time.monotonic(), in whole units
    t_thr,               \* per call: its worker thread inside _run_pump
    t_pump,              \* per call: the pump it names
    t_wake,              \* per call: when its current time.sleep is due to return
    t_lock,              \* PumpController._lock owner
    t_pin,               \* GPIO output level per pin
    t_cooldowns,         \* PumpController._cooldowns: pump -> timestamp
    t_requested,         \* history: per call, when dispense was called
    t_started,           \* history: per call, when its pin was driven active
    t_prev_end,          \* history: per call, when the pump's previous hold had ended
    last_end             \* history: per pump, when its latest hold ended

cdvars == <<now, t_thr, t_pump, t_wake, t_lock, t_pin, t_cooldowns, t_requested,
            t_started, t_prev_end, last_end>>

\* pi-controller service (main.py): one PumpController, one event loop
VARIABLES
    pc_payload,          \* per request: the PumpPayload it carried
    pc_resp,             \* per request: the HTTP response
    pc_task,             \* per request: position of its _dispense_task
    pc_args,             \* per request: the arguments its task was created with
    pc_wake,             \* per request: when its current asyncio.sleep is due
    pc_lock,             \* PumpController._lock: the task holding it
    pc_waiters,          \* PumpController._lock: tasks queued in acquire()
    pc_gpio,             \* pin -> "ACTIVE" / "INACTIVE"
    pc_started,          \* history: per request, when its pin was set active
    pc_ended,            \* history: per request, when its pin was set inactive
    pc_held              \* history: per request, seconds slept with the pin active

pcvars == <<pc_payload, pc_resp, pc_task, pc_args, pc_wake, pc_lock, pc_waiters,
            pc_gpio, pc_started, pc_ended, pc_held>>

\* backend POST /iot/pour (apps/backend/iot/routes.py) and its pump configuration
VARIABLES
    pump_config,         \* the user's pumpConfig document in the database
    pour_pc,             \* per pour: where send_drink_to_firmware is
    pour_request,        \* per pour: the PourRequest (drink, user_id given or not)
    pour_response,       \* per pour: the PourResponse
    command_payload,     \* per pour: the steps posted to the firmware
    http_outcome         \* history: per pour, what became of the HTTP call

bevars == <<pump_config, pour_pc, pour_request, pour_response, command_payload,
            http_outcome>>

\* one PumpController from construction to process exit (Pi5 controller.py,
\* pi-controller main.py, firmware pumps.py)
VARIABLES
    lc_impl,             \* which of the three PumpController classes
    lc_hardware,         \* RPi.GPIO imported (and not SIMULATE_GPIO)
    lc_phase,            \* "serving", "stopping", "stopped", "exited"
    lc_gpio,             \* channel per pump pin: "LOW", "HIGH" or "IN" (not set up)
    lc_busy,             \* the pump whose hold is under way, or ""
    lc_cleanup_calls,    \* history: calls of cleanup()
    lc_cleanup_raised,   \* history: calls of cleanup() that raised
    lc_failed,           \* history: GPIO.output calls of activations that raised
    lc_started,          \* history: activations attempted
    lc_trigger           \* history: what stopped the server, "normal" or "signal"

lcvars == <<lc_impl, lc_hardware, lc_phase, lc_gpio, lc_busy, lc_cleanup_calls,
            lc_cleanup_raised, lc_failed, lc_started, lc_trigger>>

\* Pi5 service: shared-secret check ahead of the dispensing routes
VARIABLES
    firmware_auth_token, \* settings.firmware_auth_token; "" when none is configured
    http_request         \* per caller: the request its client has sent

auvars == <<firmware_auth_token, http_request>>

\* backend WebSocketConnectionManager, the connections of one client_id
VARIABLES
    active_connections,  \* the websocket registered for the client_id, or NoSocket
    ws_lock,             \* WebSocketConnectionManager._lock: the handler holding it
    ws_pc,               \* per connection: where its handle_connection is
    ws_state,            \* per connection: "new", "open" or "closed"
    ws_old,              \* per connection: old_ws, the websocket its accept() popped
    ws_latest            \* history: the connection whose accept() returned True last

wsvars == <<active_connections, ws_lock, ws_pc, ws_state, ws_old, ws_latest>>

\* the state of the parts that follow the three above
extvars == <<cdvars, pcvars, bevars, lcvars, auvars, wsvars>>

\* the same without one part
rest_cd == <<pcvars, bevars, lcvars, auvars, wsvars>>
rest_pc == <<cdvars, bevars, lcvars, auvars, wsvars>>
rest_be == <<cdvars, pcvars, lcvars, auvars, wsvars>>
rest_lc == <<cdvars, pcvars, bevars, auvars, wsvars>>
rest_au == <<cdvars, pcvars, bevars, lcvars, wsvars>>
rest_ws == <<cdvars, pcvars, bevars, lcvars, auvars>>

vars == <<pi5vars, fwvars, seqvars, extvars>>

(* --------------------- PumpController (Pi5) -------------------------- *)

\* _validate_seconds without its safety ceiling
validate_seconds_no_ceiling(seconds) ==
    IF seconds <= 0 THEN "nonpositive" ELSE "ok"

_validate_seconds(seconds) ==
    IF seconds <= 0 THEN "nonpositive"
    ELSE IF max_run_seconds # 0 /\ seconds > max_run_seconds THEN "safety"
    ELSE "ok"

\* the part of PumpController.dispense that runs before asyncio.to_thread:
\* "ok" or the ValueError it raises
dispense_check(pump, seconds) ==
    IF _validate_seconds(seconds) # "ok" THEN _validate_seconds(seconds)
    ELSE IF pump \notin DOMAIN mapping_pumps THEN "unknown_pump"
    ELSE "ok"

get_pin(pump) == mapping_pumps[pump]

\* the dict _run_pump returns
run_pump_result(step) ==
    [pump |-> step.pump, pin |-> get_pin(step.pump), seconds |-> step.seconds,
     mode |-> IF hardware_available THEN "hardware" ELSE "simulation"]

\* run_steps sleeps between steps, not after the last one
run_steps_pauses(pause_between, remaining) ==
    pause_between > 0 /\ remaining # <<>>

(* --------------------- DispenseManager (Pi5) ------------------------- *)

_resolve_seconds(step) ==
    IF step.prime THEN prime_time_seconds
    ELSE IF Truthy(step.seconds) THEN step.seconds
    ELSE IF Truthy(step.ml)
         THEN IF ~Truthy(get_flow_rate(step.pump)) THEN None
              ELSE step.ml \div (get_flow_rate(step.pump) * get_correction_factor(step.pump))
    ELSE None

\* normalize_steps raises the ValueError of _resolve_seconds (None) for some step
normalize_raises(steps) ==
    \E i \in 1..Len(steps) : _resolve_seconds(steps[i]) = None

normalize_steps(steps) ==
    [i \in 1..Len(steps) |->
        [pump |-> steps[i].pump, seconds |-> _resolve_seconds(steps[i])]]

\* dispense_steps lines 94-103 with pause_override = None
resolve_pause(default_pause) ==
    IF default_pause # None THEN default_pause ELSE post_dispense_delay_seconds

_increment_queue(qd) == qd + 1

_decrement_queue(qd) == IF qd - 1 > 0 THEN qd - 1 ELSE 0

_set_current(run_id) == run_id

_clear_current(cid, run_id) == IF cid = run_id THEN None ELSE cid

\* a release that gives the permit back on success only
release_permit_on_success(sem, how) == IF how = "ok" THEN sem + 1 ELSE sem

\* the finally clause of dispense_steps releases however the try block ended
release_permit(sem, how) == sem + 1

_build_result(item) ==
    [pump |-> item.pump, seconds |-> item.seconds, pin |-> item.pin, mode |-> item.mode,
     ml |-> IF Truthy(get_flow_rate(item.pump))
            THEN get_flow_rate(item.pump) * get_correction_factor(item.pump) * item.seconds
            ELSE None]

NoResponse == [status |-> 0, detail |-> "", results |-> <<>>]

\* HTTPException(status_code, detail=str(exc)): the detail string is all it carries
ErrorResponse(status, detail) == [status |-> status, detail |-> detail, results |-> <<>>]

OkResponse(res) == [status |-> 200, detail |-> "", results |-> res]

\* The run r, holding a permit, reaches the next step of `steps`:
\* PumpController.run_steps up to its next suspension point.
RunFrom(r, steps, qd, cid, sem) ==
    LET st == Head(steps)
        chk == dispense_check(st.pump, st.seconds)
    IN  /\ cur' = [cur EXCEPT ![r] = st]
        /\ queue_depth' = qd
        /\ IF chk = "ok"
           THEN /\ pc' = [pc EXCEPT ![r] = "thread"]
                /\ thr' = [thr EXCEPT ![r] = "waitlock"]
                /\ todo' = [todo EXCEPT ![r] = Tail(steps)]
                /\ current_run_id' = cid
                /\ semaphore' = sem
                /\ resp' = resp
           ELSE /\ pc' = [pc EXCEPT ![r] = "failed"]
                /\ thr' = [thr EXCEPT ![r] = "none"]
                /\ todo' = [todo EXCEPT ![r] = <<>>]
                /\ current_run_id' = _clear_current(cid, r)
                /\ semaphore' = release_permit(sem, "error")
                /\ resp' = [resp EXCEPT ![r] = ErrorResponse(400, chk)]

\* the same with the queue counted before the steps are looked at
SubmitQueuesFirst(r, steps, default_pause) ==
    /\ pc[r] = "idle"
    /\ UNCHANGED <<fwvars, seqvars, extvars>>
    /\ UNCHANGED <<max_parallel_jobs, hardware_available, results, lock, pin,
                   cooldowns, activations, actOrder>>
    /\ IF steps = <<>> \/ normalize_raises(steps)
       THEN /\ pc' = [pc EXCEPT ![r] = "failed"]
            /\ resp' = [resp EXCEPT ![r] =
                  ErrorResponse(400, IF steps = <<>> THEN "no_steps" ELSE "unresolvable")]
            /\ queue_depth' = _increment_queue(queue_depth)
            /\ UNCHANGED <<todo, cur, pause, thr, semaphore, waiters, current_run_id>>
       ELSE /\ pause' = [pause EXCEPT ![r] = resolve_pause(default_pause)]
            /\ IF semaphore > 0 /\ waiters = <<>>
               THEN /\ RunFrom(r, normalize_steps(steps),
                               _decrement_queue(_increment_queue(queue_depth)),
                               _set_current(r), semaphore - 1)
                    /\ waiters' = waiters
               ELSE /\ pc' = [pc EXCEPT ![r] = "waiting"]
                    /\ todo' = [todo EXCEPT ![r] = normalize_steps(steps)]
                    /\ queue_depth' = _increment_queue(queue_depth)
                    /\ waiters' = Append(waiters, r)
                    /\ UNCHANGED <<cur, thr, semaphore, current_run_id, resp>>

\* POST /dispense: dispense_steps up to its first suspension point
Submit(r, steps, default_pause) ==
    /\ pc[r] = "idle"
    /\ UNCHANGED <<fwvars, seqvars, extvars>>
    /\ UNCHANGED <<max_parallel_jobs, hardware_available, results, lock, pin,
                   cooldowns, activations, actOrder>>
    /\ IF steps = <<>> \/ normalize_raises(steps)
       THEN /\ pc' = [pc EXCEPT ![r] = "failed"]
            /\ resp' = [resp EXCEPT ![r] =
                  ErrorResponse(400, IF steps = <<>> THEN "no_steps" ELSE "unresolvable")]
            /\ UNCHANGED <<todo, cur, pause, thr, semaphore, waiters, queue_depth,
                           current_run_id>>
       ELSE /\ pause' = [pause EXCEPT ![r] = resolve_pause(default_pause)]
            /\ IF semaphore > 0 /\ waiters = <<>>
               THEN /\ RunFrom(r, normalize_steps(steps),
                               _decrement_queue(_increment_queue(queue_depth)),
                               _set_current(r), semaphore - 1)
                    /\ waiters' = waiters
               ELSE /\ pc' = [pc EXCEPT ![r] = "waiting"]
                    /\ todo' = [todo EXCEPT ![r] = normalize_steps(steps)]
                    /\ queue_depth' = _increment_queue(queue_depth)
                    /\ waiters' = Append(waiters, r)
                    /\ UNCHANGED <<cur, thr, semaphore, current_run_id, resp>>

\* semaphore.acquire() returns in the longest-waiting request
Wake(r) ==
    /\ pc[r] = "waiting"
    /\ waiters # <<>> /\ Head(waiters) = r
    /\ semaphore > 0
    /\ RunFrom(r, todo[r], _decrement_queue(queue_depth), _set_current(r), semaphore - 1)
    /\ waiters' = Tail(waiters)
    /\ UNCHANGED <<fwvars, seqvars, extvars>>
    /\ UNCHANGED <<max_parallel_jobs, hardware_available, pause, results, lock, pin,
                   cooldowns, activations, actOrder>>

\* _run_pump: the worker thread takes the RLock and drives the pin active
ThreadStart(c) ==
    /\ thr[c] = "waitlock"
    /\ lock = NoOwner
    /\ lock' = c
    /\ thr' = [thr EXCEPT ![c] = "active"]
    /\ pin' = IF hardware_available
              THEN [pin EXCEPT ![get_pin(cur[c].pump)] = "HIGH"] ELSE pin
    /\ activations' = [activations EXCEPT ![c] = @ + 1]
    /\ actOrder' = IF c \in Run /\ (actOrder = <<>> \/ actOrder[Len(actOrder)] # c)
                   THEN Append(actOrder, c) ELSE actOrder
    /\ UNCHANGED <<fwvars, seqvars, extvars>>
    /\ UNCHANGED <<max_parallel_jobs, hardware_available, pc, todo, cur, pause, results,
                   resp, semaphore, waiters, queue_depth, current_run_id, cooldowns>>

\* _run_pump: the hold time is over, pin inactive, cooldown stamped, lock released
ThreadEnd(c) ==
    /\ thr[c] = "active"
    /\ pin' = IF hardware_available
              THEN [pin EXCEPT ![get_pin(cur[c].pump)] = "LOW"] ELSE pin
    /\ cooldowns' = [cooldowns EXCEPT ![cur[c].pump] = c]
    /\ lock' = NoOwner
    /\ thr' = [thr EXCEPT ![c] = "finished"]
    /\ UNCHANGED <<fwvars, seqvars, extvars>>
    /\ UNCHANGED <<max_parallel_jobs, hardware_available, pc, todo, cur, pause, results,
                   resp, semaphore, waiters, queue_depth, current_run_id, activations,
                   actOrder>>

\* asyncio.to_thread returns into run_steps, which goes on to its next suspension
ThreadReturn(r) ==
    /\ pc[r] = "thread"
    /\ thr[r] = "finished"
    /\ results' = [results EXCEPT ![r] = Append(@, run_pump_result(cur[r]))]
    /\ UNCHANGED <<fwvars, seqvars, extvars>>
    /\ UNCHANGED <<max_parallel_jobs, hardware_available, pause, waiters, lock, pin,
                   cooldowns, activations, actOrder>>
    /\ IF todo[r] = <<>>
       THEN /\ pc' = [pc EXCEPT ![r] = "done"]
            /\ thr' = [thr EXCEPT ![r] = "none"]
            /\ resp' = [resp EXCEPT ![r] =
                  OkResponse([i \in 1..Len(results'[r]) |-> _build_result(results'[r][i])])]
            /\ current_run_id' = _clear_current(current_run_id, r)
            /\ semaphore' = release_permit(semaphore, "ok")
            /\ UNCHANGED <<todo, cur, queue_depth>>
       ELSE IF run_steps_pauses(pause[r], todo[r])
       THEN /\ pc' = [pc EXCEPT ![r] = "pause"]
            /\ thr' = [thr EXCEPT ![r] = "none"]
            /\ UNCHANGED <<todo, cur, resp, semaphore, queue_depth, current_run_id>>
       ELSE RunFrom(r, todo[r], queue_depth, current_run_id, semaphore)

\* asyncio.sleep(pause_between) is over
PauseDone(r) ==
    /\ pc[r] = "pause"
    /\ RunFrom(r, todo[r], queue_depth, current_run_id, semaphore)
    /\ UNCHANGED <<fwvars, seqvars, extvars>>
    /\ UNCHANGED <<max_parallel_jobs, hardware_available, pause, results, waiters, lock,
                   pin, cooldowns, activations, actOrder>>

\* Time passes for the run r inside wait_for: it sleeps between two steps, or its
\* worker thread holds a pin active or is blocked on the RLock. (A thread that
\* can take the free lock, or has returned, goes on at once.)
TimePasses(r) ==
    \/ pc[r] = "pause"
    \/ pc[r] = "thread" /\ thr[r] = "active"
    \/ pc[r] = "thread" /\ thr[r] = "waitlock" /\ lock # NoOwner

\* a timeout that would also stop the worker thread and switch its pin off
TimeoutInterrupts(r) ==
    /\ TimePasses(r)
    /\ pc' = [pc EXCEPT ![r] = "timeout"]
    /\ todo' = [todo EXCEPT ![r] = <<>>]
    /\ resp' = [resp EXCEPT ![r] = ErrorResponse(500, "timeout")]
    /\ current_run_id' = _clear_current(current_run_id, r)
    /\ semaphore' = release_permit(semaphore, "timeout")
    /\ thr' = [thr EXCEPT ![r] = "finished"]
    /\ lock' = IF lock = r THEN NoOwner ELSE lock
    /\ pin' = IF lock = r THEN [pin EXCEPT ![get_pin(cur[r].pump)] = "LOW"] ELSE pin
    /\ UNCHANGED <<fwvars, seqvars, extvars>>
    /\ UNCHANGED <<max_parallel_jobs, hardware_available, cur, pause, results,
                   waiters, queue_depth, cooldowns, activations, actOrder>>

\* asyncio.wait_for gives up: run_steps is cancelled at its suspension point, the
\* worker thread (if any) goes on; finally clause, then the route answers 500
Timeout(r) ==
    /\ TimePasses(r)
    /\ pc' = [pc EXCEPT ![r] = "timeout"]
    /\ todo' = [todo EXCEPT ![r] = <<>>]
    /\ resp' = [resp EXCEPT ![r] = ErrorResponse(500, "timeout")]
    /\ current_run_id' = _clear_current(current_run_id, r)
    /\ semaphore' = release_permit(semaphore, "timeout")
    /\ UNCHANGED <<fwvars, seqvars, extvars>>
    /\ UNCHANGED <<max_parallel_jobs, hardware_available, cur, pause, results, thr,
                   waiters, queue_depth, lock, pin, cooldowns, activations, actOrder>>

\* the request task is cancelled at the suspension point it is waiting at
Cancel(r) ==
    /\ \/ /\ pc[r] = "waiting"
          /\ waiters' = SelectSeq(waiters, LAMBDA w : w # r)
          /\ UNCHANGED <<semaphore, current_run_id>>
       \/ /\ pc[r] \in {"thread", "pause"}
          /\ current_run_id' = _clear_current(current_run_id, r)
          /\ semaphore' = release_permit(semaphore, "cancelled")
          /\ waiters' = waiters
    /\ pc' = [pc EXCEPT ![r] = "cancelled"]
    /\ todo' = [todo EXCEPT ![r] = <<>>]
    /\ UNCHANGED <<fwvars, seqvars, extvars>>
    /\ UNCHANGED <<max_parallel_jobs, hardware_available, cur, pause, results, resp, thr,
                   queue_depth, lock, pin, cooldowns, activations, actOrder>>

\* a direct call of PumpController.dispense from a route
DirectCall(d, pump, seconds) ==
    /\ pc[d] = "idle"
    /\ cur' = [cur EXCEPT ![d] = [pump |-> pump, seconds |-> seconds]]
    /\ IF dispense_check(pump, seconds) = "ok"
       THEN /\ pc' = [pc EXCEPT ![d] = "thread"]
            /\ thr' = [thr EXCEPT ![d] = "waitlock"]
            /\ resp' = resp
       ELSE /\ pc' = [pc EXCEPT ![d] = "failed"]
            /\ thr' = thr
            /\ resp' = [resp EXCEPT ![d] = ErrorResponse(400, dispense_check(pump, seconds))]
    /\ UNCHANGED <<fwvars, seqvars, extvars>>
    /\ UNCHANGED <<max_parallel_jobs, hardware_available, todo, pause, results, semaphore,
                   waiters, queue_depth, current_run_id, lock, pin, cooldowns,
                   activations, actOrder>>

\* POST /pumps/{pump_name}/prime -> PumpController.prime
PrimePump(d, pump_name, seconds) ==
    DirectCall(d, pump_name, IF Truthy(seconds) THEN seconds ELSE prime_time_seconds)

\* POST /pumps/{pump_name}/calibrate
CalibratePump(d, pump_name, seconds) ==
    DirectCall(d, pump_name, seconds)

\* the route's await of controller.prime / controller.dispense returns
DirectReturn(d) ==
    /\ pc[d] = "thread"
    /\ thr[d] = "finished"
    /\ pc' = [pc EXCEPT ![d] = "done"]
    /\ thr' = [thr EXCEPT ![d] = "none"]
    /\ results' = [results EXCEPT ![d] = <<run_pump_result(cur[d])>>]
    /\ resp' = [resp EXCEPT ![d] = OkResponse(<<_build_result(run_pump_result(cur[d]))>>)]
    /\ UNCHANGED <<fwvars, seqvars, extvars>>
    /\ UNCHANGED <<max_parallel_jobs, hardware_available, todo, cur, pause, semaphore,
                   waiters, queue_depth, current_run_id, lock, pin, cooldowns,
                   activations, actOrder>>

(* --------------- firmware /iot/drink (apps/firmware/routes.py) ------- *)

\* concurrent POST /iot/drink requests
NFwRequests == 2
\* longest hardware_steps list of a request
MaxFwSteps == 2

FwRequest == 1..NFwRequests

PUMP_TO_GPIO == ("pump1" :> 17) @@ ("pump2" :> 27) @@ ("pump3" :> 22)

\* config["pumps"] of a deployment's pi_mapping.json: ingredient -> GPIO pin
INGREDIENT_TO_GPIO == ("Vodka" :> 5)

GpioPin == {PUMP_TO_GPIO[p] : p \in DOMAIN PUMP_TO_GPIO}
               \cup {INGREDIENT_TO_GPIO[g] : g \in DOMAIN INGREDIENT_TO_GPIO}

\* a JSON number for "seconds", or a JSON string
Number(v) == [number |-> TRUE, val |-> v]
Text == [number |-> FALSE, val |-> 0]

\* step.get("seconds") or step.get("duration", 1.0), for steps without "duration"
step_seconds(step) ==
    IF step.seconds.number /\ step.seconds.val = 0 THEN Number(1) ELSE step.seconds

\* the pin lookup of one loop iteration: pump_mapping and the config first,
\* PUMP_TO_GPIO as fallback, None when neither knows the pump
gpio_pin(step, pump_mapping) ==
    LET hits == {g \in DOMAIN pump_mapping :
                    pump_mapping[g] = step.pump /\ g \in DOMAIN INGREDIENT_TO_GPIO}
    IN  IF DOMAIN pump_mapping # {} /\ step.description # "" /\ hits # {}
        THEN INGREDIENT_TO_GPIO[CHOOSE g \in hits : TRUE]
        ELSE IF step.pump \in DOMAIN PUMP_TO_GPIO THEN PUMP_TO_GPIO[step.pump]
        ELSE None

\* the steps for which the loop appends a run_pump() coroutine
resolved_steps(hardware_steps, pump_mapping) ==
    SelectSeq(hardware_steps, LAMBDA st : gpio_pin(st, pump_mapping) # None)

\* run_pump reads pin and duration from the enclosing function's variables when
\* its body runs, which is inside gather: by then the loop has ended and they
\* hold what the last iteration that resolved a pin assigned
closure_cells(hardware_steps, pump_mapping) ==
    LET rs == resolved_steps(hardware_steps, pump_mapping)
    IN  [pin |-> gpio_pin(rs[Len(rs)], pump_mapping),
         duration |-> step_seconds(rs[Len(rs)])]

\* GPIO.cleanup(): every channel back to input
gpio_cleanup_all == [p \in GpioPin |-> "IN"]

\* the handler up to its await of asyncio.gather
receive_drink_request(q, hardware_steps, pump_mapping) ==
    /\ handler[q] = "idle"
    /\ holds_requested' = [holds_requested EXCEPT
          ![q] = Len(resolved_steps(hardware_steps, pump_mapping))]
    /\ IF ~GPIO_AVAILABLE
       THEN /\ handler' = [handler EXCEPT ![q] = "ok"]
            /\ UNCHANGED <<pump_tasks, closure, pins_to_control, task_pins, skipped>>
       ELSE IF resolved_steps(hardware_steps, pump_mapping) = <<>>
       THEN /\ handler' = [handler EXCEPT ![q] = "error"]
            /\ skipped' = [skipped EXCEPT ![q] = Len(hardware_steps)]
            /\ UNCHANGED <<pump_tasks, closure, pins_to_control, task_pins>>
       ELSE LET rs == resolved_steps(hardware_steps, pump_mapping)
            IN  /\ handler' = [handler EXCEPT ![q] = "gather"]
                /\ pump_tasks' = [pump_tasks EXCEPT ![q] = [i \in 1..Len(rs) |-> "new"]]
                /\ closure' = [closure EXCEPT
                                  ![q] = closure_cells(hardware_steps, pump_mapping)]
                /\ pins_to_control' = [pins_to_control EXCEPT
                      ![q] = {gpio_pin(rs[i], pump_mapping) : i \in 1..Len(rs)}]
                /\ task_pins' = [task_pins EXCEPT
                      ![q] = [i \in 1..Len(rs) |-> gpio_pin(rs[i], pump_mapping)]]
                /\ skipped' = [skipped EXCEPT
                                  ![q] = Len(hardware_steps) - Len(rs)]
    /\ UNCHANGED <<GPIO_AVAILABLE, gpio>>
    /\ UNCHANGED <<pi5vars, seqvars, extvars>>

\* first slice of the i-th run_pump task: setup, LOW, HIGH, then asyncio.sleep,
\* which raises TypeError when the duration is not a number
run_pump(q, i) ==
    /\ i \in DOMAIN pump_tasks[q]
    /\ pump_tasks[q][i] = "new"
    /\ \A j \in 1..(i - 1) : pump_tasks[q][j] # "new"
    /\ gpio' = [gpio EXCEPT ![closure[q].pin] = "HIGH"]
    /\ pump_tasks' = [pump_tasks EXCEPT
          ![q][i] = IF closure[q].duration.number THEN "sleeping" ELSE "raised"]
    /\ UNCHANGED <<GPIO_AVAILABLE, handler, closure, pins_to_control>>
    /\ UNCHANGED fwhist
    /\ UNCHANGED <<pi5vars, seqvars, extvars>>

\* second slice: the sleep is over and the task writes LOW; RPi.GPIO raises
\* RuntimeError when the channel is no longer set up as an output
run_pump_wakes(q, i) ==
    /\ i \in DOMAIN pump_tasks[q]
    /\ pump_tasks[q][i] = "sleeping"
    /\ \A j \in 1..(i - 1) : pump_tasks[q][j] # "sleeping"
    /\ IF gpio[closure[q].pin] = "IN"
       THEN /\ pump_tasks' = [pump_tasks EXCEPT ![q][i] = "raised"]
            /\ UNCHANGED gpio
       ELSE /\ pump_tasks' = [pump_tasks EXCEPT ![q][i] = "done"]
            /\ gpio' = [gpio EXCEPT ![closure[q].pin] = "LOW"]
    /\ UNCHANGED <<GPIO_AVAILABLE, handler, closure, pins_to_control>>
    /\ UNCHANGED fwhist
    /\ UNCHANGED <<pi5vars, seqvars, extvars>>

\* gather returns: GPIO.cleanup(pin) for each pin of pins_to_control
gather_returns(q) ==
    /\ handler[q] = "gather"
    /\ \A i \in DOMAIN pump_tasks[q] : pump_tasks[q][i] = "done"
    /\ gpio' = [p \in GpioPin |-> IF p \in pins_to_control[q] THEN "IN" ELSE gpio[p]]
    /\ handler' = [handler EXCEPT ![q] = "ok"]
    /\ UNCHANGED <<GPIO_AVAILABLE, pump_tasks, closure, pins_to_control>>
    /\ UNCHANGED fwhist
    /\ UNCHANGED <<pi5vars, seqvars, extvars>>

\* gather re-raises a task's exception (the other tasks keep running): the
\* except clause writes LOW to the PUMP_TO_GPIO pins and calls GPIO.cleanup()
gather_raises(q) ==
    /\ handler[q] = "gather"
    /\ \E i \in DOMAIN pump_tasks[q] : pump_tasks[q][i] = "raised"
    /\ \A i \in DOMAIN pump_tasks[q] : pump_tasks[q][i] # "new"
    /\ gpio' = gpio_cleanup_all
    /\ handler' = [handler EXCEPT ![q] = "error"]
    /\ UNCHANGED <<GPIO_AVAILABLE, pump_tasks, closure, pins_to_control>>
    /\ UNCHANGED fwhist
    /\ UNCHANGED <<pi5vars, seqvars, extvars>>

\* the request task is cancelled while it awaits gather: gather cancels its
\* children, CancelledError passes the handler's "except Exception"
cancel_request(q) ==
    /\ handler[q] = "gather"
    /\ pump_tasks' = [pump_tasks EXCEPT ![q] =
          [i \in DOMAIN pump_tasks[q] |->
              IF pump_tasks[q][i] \in {"new", "sleeping"}
              THEN "cancelled" ELSE pump_tasks[q][i]]]
    /\ handler' = [handler EXCEPT ![q] = "cancelled"]
    /\ UNCHANGED <<GPIO_AVAILABLE, closure, pins_to_control, gpio>>
    /\ UNCHANGED fwhist
    /\ UNCHANGED <<pi5vars, seqvars, extvars>>

(* ------------------------- one sequential run ------------------------ *)
(* Pi5 PumpController.run_steps, firmware PumpController.dispense_steps    *)
(* (apps/firmware/hardware/pumps.py) and backend                           *)
(* DispenserService.dispense_sequence, each run by one caller.             *)

Impl == {"pi5", "firmware", "backend"}

\* pause used by the loop: only the firmware loop accepts None
seq_resolve_pause(i, pause_between) ==
    IF i = "firmware" /\ pause_between = None
    THEN post_dispense_delay_seconds ELSE pause_between

\* firmware dispense_steps: the check before the worker thread, then _run_step's
firmware_step_check(step) ==
    IF max_run_seconds # 0 /\ step.seconds > max_run_seconds THEN "safety"
    ELSE IF step.pump \notin DOMAIN mapping_pumps THEN "unknown_pump"
    ELSE "ok"

\* backend _run_step: raise_for_status on the controller's answer
backend_step_check(step) ==
    IF step.pump \notin DOMAIN mapping_pumps THEN "http_error" ELSE "ok"

seq_step_check(i, step) ==
    CASE i = "pi5" -> dispense_check(step.pump, step.seconds)
      [] i = "firmware" -> firmware_step_check(step)
      [] i = "backend" -> backend_step_check(step)

\* whether the loop sleeps after the step at index idx of n
seq_pauses(i, pause_between, idx, steps) ==
    CASE i = "pi5" -> run_steps_pauses(pause_between, SubSeq(steps, idx + 1, Len(steps)))
      [] i = "firmware" -> pause_between > 0
      [] i = "backend" -> pause_between > 0

\* the loop reaches index idx: the step is started or rejected, or the loop ends
seq_goto(i, steps, idx) ==
    IF idx > Len(steps)
    THEN /\ seq_pc' = "done"
         /\ seq_idx' = idx
         /\ UNCHANGED events
    ELSE IF seq_step_check(i, steps[idx]) # "ok"
    THEN /\ seq_pc' = "failed"
         /\ seq_idx' = idx
         /\ UNCHANGED events
    ELSE /\ seq_pc' = "activating"
         /\ seq_idx' = idx
         /\ events' = Append(events, <<"start", idx>>)

\* the call of the loop and its first iteration; the backend rejects an empty list
seq_start(i, steps, pause_between) ==
    /\ seq_pc = "idle"
    /\ impl' = i
    /\ seq_steps' = steps
    /\ seq_pause' = seq_resolve_pause(i, pause_between)
    /\ IF i = "backend" /\ steps = <<>>
       THEN seq_pc' = "failed" /\ UNCHANGED <<seq_idx, events>>
       ELSE seq_goto(i, steps, 1)
    /\ UNCHANGED <<pi5vars, fwvars, extvars>>

\* the activation returns; the loop sleeps or goes on
seq_step_ends ==
    /\ seq_pc = "activating"
    /\ IF seq_pauses(impl, seq_pause, seq_idx, seq_steps)
       THEN /\ seq_pc' = "pausing"
            /\ events' = Append(events, <<"end", seq_idx>>)
            /\ UNCHANGED seq_idx
       ELSE LET e == Append(events, <<"end", seq_idx>>)
            IN  IF seq_idx + 1 > Len(seq_steps)
                THEN seq_pc' = "done" /\ seq_idx' = seq_idx + 1 /\ events' = e
                ELSE IF seq_step_check(impl, seq_steps[seq_idx + 1]) # "ok"
                THEN seq_pc' = "failed" /\ seq_idx' = seq_idx + 1 /\ events' = e
                ELSE /\ seq_pc' = "activating"
                     /\ seq_idx' = seq_idx + 1
                     /\ events' = Append(e, <<"start", seq_idx + 1>>)
    /\ UNCHANGED <<impl, seq_steps, seq_pause>>
    /\ UNCHANGED <<pi5vars, fwvars, extvars>>

\* the sleep after a step is over
seq_pause_ends ==
    /\ seq_pc = "pausing"
    /\ LET e == Append(events, <<"pause", seq_idx>>)
       IN  IF seq_idx + 1 > Len(seq_steps)
           THEN seq_pc' = "done" /\ seq_idx' = seq_idx + 1 /\ events' = e
           ELSE IF seq_step_check(impl, seq_steps[seq_idx + 1]) # "ok"
           THEN seq_pc' = "failed" /\ seq_idx' = seq_idx + 1 /\ events' = e
           ELSE /\ seq_pc' = "activating"
                /\ seq_idx' = seq_idx + 1
                /\ events' = Append(e, <<"start", seq_idx + 1>>)
    /\ UNCHANGED <<impl, seq_steps, seq_pause>>
    /\ UNCHANGED <<pi5vars, fwvars, extvars>>

(* ------------- PumpController (Pi5) cooldown, with a clock ------------ *)

\* concurrent calls of PumpController.dispense
NTimedCalls == 2
\* the clock stops here
MaxTime == 6
\* defaults.cooldown_seconds of the modelled mapping file
CooldownSeconds == 2

cooldown_seconds == CooldownSeconds

TimedCall == 1..NTimedCalls

\* a cooldown check that never waits
respect_no_cooldown(last_run, t) == t

\* _respect_cooldown called at time t with last_run = _cooldowns.get(pump):
\* the time at which it returns
_respect_cooldown(last_run, t) ==
    IF cooldown_seconds <= 0 THEN t
    ELSE IF last_run = None THEN t
    ELSE IF cooldown_seconds - (t - last_run) > 0
         THEN t + (cooldown_seconds - (t - last_run))
    ELSE t

\* _run_pump drives the pin active and starts the hold of one unit
timed_drive(c) ==
    /\ t_pin' = [t_pin EXCEPT ![get_pin(t_pump[c])] = "HIGH"]
    /\ t_thr' = [t_thr EXCEPT ![c] = "active"]
    /\ t_wake' = [t_wake EXCEPT ![c] = now + 1]
    /\ t_started' = [t_started EXCEPT ![c] = now]
    /\ t_prev_end' = [t_prev_end EXCEPT ![c] = last_end[t_pump[c]]]

\* PumpController.dispense: validation passed, the worker thread is started
timed_dispense(c, pump) ==
    /\ t_thr[c] = "idle"
    /\ dispense_check(pump, 1) = "ok"
    /\ t_thr' = [t_thr EXCEPT ![c] = "waitlock"]
    /\ t_pump' = [t_pump EXCEPT ![c] = pump]
    /\ t_requested' = [t_requested EXCEPT ![c] = now]
    /\ UNCHANGED <<now, t_wake, t_lock, t_pin, t_cooldowns, t_started, t_prev_end,
                   last_end>>
    /\ UNCHANGED <<pi5vars, fwvars, seqvars, rest_cd>>

\* _run_pump: the thread takes the RLock and calls _respect_cooldown, which
\* returns at once or sleeps for the remaining cooldown
timed_lock(c) ==
    /\ t_thr[c] = "waitlock"
    /\ t_lock = NoOwner
    /\ t_lock' = c
    /\ IF _respect_cooldown(t_cooldowns[t_pump[c]], now) > now
       THEN /\ t_thr' = [t_thr EXCEPT ![c] = "cooling"]
            /\ t_wake' = [t_wake EXCEPT
                              ![c] = _respect_cooldown(t_cooldowns[t_pump[c]], now)]
            /\ UNCHANGED <<t_pin, t_started, t_prev_end>>
       ELSE timed_drive(c)
    /\ UNCHANGED <<now, t_pump, t_cooldowns, t_requested, last_end>>
    /\ UNCHANGED <<pi5vars, fwvars, seqvars, rest_cd>>

\* the cooldown sleep has returned (no earlier than asked)
timed_cooled(c) ==
    /\ t_thr[c] = "cooling"
    /\ now >= t_wake[c]
    /\ timed_drive(c)
    /\ UNCHANGED <<now, t_pump, t_lock, t_cooldowns, t_requested, last_end>>
    /\ UNCHANGED <<pi5vars, fwvars, seqvars, rest_cd>>

\* the hold has returned: pin inactive, cooldown stamped, lock released
timed_end(c) ==
    /\ t_thr[c] = "active"
    /\ now >= t_wake[c]
    /\ t_pin' = [t_pin EXCEPT ![get_pin(t_pump[c])] = "LOW"]
    /\ t_cooldowns' = [t_cooldowns EXCEPT ![t_pump[c]] = now]
    /\ last_end' = [last_end EXCEPT ![t_pump[c]] = now]
    /\ t_lock' = NoOwner
    /\ t_thr' = [t_thr EXCEPT ![c] = "done"]
    /\ UNCHANGED <<now, t_pump, t_wake, t_requested, t_started, t_prev_end>>
    /\ UNCHANGED <<pi5vars, fwvars, seqvars, rest_cd>>

\* the clock advances
Tick ==
    /\ now < MaxTime
    /\ now' = now + 1
    /\ UNCHANGED <<t_thr, t_pump, t_wake, t_lock, t_pin, t_cooldowns, t_requested,
                   t_started, t_prev_end, last_end>>
    /\ UNCHANGED <<pi5vars, fwvars, seqvars, rest_cd>>

(* ------------------- pi-controller (main.py) ------------------------- *)

\* concurrent POST /iot/drink requests to the pi-controller
NPcRequests == 2

PcRequest == 1..NPcRequests

\* pi_mapping.json of the pi-controller: pumps, defaults
pc_pumps == ("p1" :> 17)
default_cooldown == 1
pc_max_run_seconds == MaxRunSeconds

Max2(a, b) == IF a >= b THEN a ELSE b

NoPayload == [id |-> "", gpio_pin |-> 0, duration_seconds |-> 0, prime_seconds |-> 0,
              post_dispense_delay_seconds |-> 0, cooldown_seconds |-> 0]

NoTiming == [prime_seconds |-> 0, duration_seconds |-> 0,
             post_dispense_delay_seconds |-> 0, cooldown_seconds |-> 0]

NoPcResponse == [status |-> 0, detail |-> "", timing |-> NoTiming]

\* _require_pump: "" when the payload names a configured pump and its pin
_require_pump(payload) ==
    IF payload.id \notin DOMAIN pc_pumps THEN "Unknown pump id"
    ELSE IF pc_pumps[payload.id] # payload.gpio_pin THEN "GPIO pin mismatch"
    ELSE ""

\* start_dispense without the clamp of lines 163-169
unclamped_duration(payload) == Max2(payload.duration_seconds, 0)

\* start_dispense lines 153-169: the main duration after the clamp
clamped_duration(payload) ==
    IF Max2(payload.duration_seconds, 0) >
           Max2(pc_max_run_seconds - Max2(payload.prime_seconds, 0), 0)
    THEN Max2(pc_max_run_seconds - Max2(payload.prime_seconds, 0), 0)
    ELSE Max2(payload.duration_seconds, 0)

\* start_dispense: the timing dictionary, also the arguments of the task
timing_of(payload) ==
    [prime_seconds |-> Max2(payload.prime_seconds, 0),
     duration_seconds |-> clamped_duration(payload),
     post_dispense_delay_seconds |-> Max2(payload.post_dispense_delay_seconds, 0),
     cooldown_seconds |-> Max2(Max2(payload.cooldown_seconds, default_cooldown), 0)]

\* start_dispense: the response of POST /iot/drink given self._lock.locked()
start_dispense_response(payload, locked) ==
    IF _require_pump(payload) # ""
    THEN [status |-> 400, detail |-> _require_pump(payload), timing |-> NoTiming]
    ELSE IF Max2(payload.prime_seconds, 0) + Max2(payload.duration_seconds, 0) <= 0
    THEN [status |-> 400, detail |-> "Dispense duration must be positive",
          timing |-> NoTiming]
    ELSE IF Max2(pc_max_run_seconds - Max2(payload.prime_seconds, 0), 0) <= 0
    THEN [status |-> 400,
          detail |-> "Prime time exceeds maximum run seconds configured",
          timing |-> NoTiming]
    ELSE IF locked
    THEN [status |-> 409, detail |-> "Pump controller is busy", timing |-> NoTiming]
    ELSE [status |-> 200, detail |-> "ok", timing |-> timing_of(payload)]

\* POST /iot/drink -> start_dispense: validates, clamps, refuses when the lock
\* is held, otherwise creates the task and answers with the timing
start_dispense(q, payload) ==
    /\ pc_resp[q] = NoPcResponse
    /\ pc_payload' = [pc_payload EXCEPT ![q] = payload]
    /\ pc_resp' = [pc_resp EXCEPT
                      ![q] = start_dispense_response(payload, pc_lock # NoOwner)]
    /\ IF start_dispense_response(payload, pc_lock # NoOwner).status = 200
       THEN /\ pc_task' = [pc_task EXCEPT ![q] = "new"]
            /\ pc_args' = [pc_args EXCEPT ![q] = timing_of(payload)]
       ELSE UNCHANGED <<pc_task, pc_args>>
    /\ UNCHANGED <<pc_wake, pc_lock, pc_waiters, pc_gpio, pc_started, pc_ended,
                   pc_held>>
    /\ UNCHANGED <<pi5vars, fwvars, seqvars, rest_pc>>

\* _dispense_task with the lock in hand: pin active, first sleep begun
pc_engage(q) ==
    /\ pc_lock' = q
    /\ pc_gpio' = [pc_gpio EXCEPT ![pc_pumps[pc_payload[q].id]] = "ACTIVE"]
    /\ pc_started' = [pc_started EXCEPT ![q] = now]
    /\ IF pc_args[q].prime_seconds > 0
       THEN /\ pc_task' = [pc_task EXCEPT ![q] = "prime"]
            /\ pc_wake' = [pc_wake EXCEPT ![q] = now + pc_args[q].prime_seconds]
       ELSE /\ pc_task' = [pc_task EXCEPT ![q] = "main"]
            /\ pc_wake' = [pc_wake EXCEPT ![q] = now + pc_args[q].duration_seconds]

\* _dispense_task, first step: `async with self._lock` takes the free lock or
\* queues behind the holder and earlier waiters
dispense_task_starts(q) ==
    /\ pc_task[q] = "new"
    /\ IF pc_lock = NoOwner /\ pc_waiters = <<>>
       THEN pc_engage(q) /\ UNCHANGED pc_waiters
       ELSE /\ pc_waiters' = Append(pc_waiters, q)
            /\ pc_task' = [pc_task EXCEPT ![q] = "waitlock"]
            /\ UNCHANGED <<pc_lock, pc_gpio, pc_started, pc_wake>>
    /\ UNCHANGED <<pc_payload, pc_resp, pc_args, pc_ended, pc_held>>
    /\ UNCHANGED <<pi5vars, fwvars, seqvars, rest_pc>>

\* the first waiter, woken by release(), takes the lock
dispense_task_acquires(q) ==
    /\ pc_task[q] = "waitlock"
    /\ pc_lock = NoOwner
    /\ pc_waiters # <<>> /\ Head(pc_waiters) = q
    /\ pc_waiters' = Tail(pc_waiters)
    /\ pc_engage(q)
    /\ UNCHANGED <<pc_payload, pc_resp, pc_args, pc_ended, pc_held>>
    /\ UNCHANGED <<pi5vars, fwvars, seqvars, rest_pc>>

\* asyncio.sleep(prime) returns; asyncio.sleep(duration) begins
dispense_task_primed(q) ==
    /\ pc_task[q] = "prime"
    /\ now >= pc_wake[q]
    /\ pc_held' = [pc_held EXCEPT ![q] = @ + pc_args[q].prime_seconds]
    /\ IF pc_args[q].duration_seconds > 0
       THEN /\ pc_task' = [pc_task EXCEPT ![q] = "main"]
            /\ pc_wake' = [pc_wake EXCEPT ![q] = now + pc_args[q].duration_seconds]
       ELSE /\ pc_task' = [pc_task EXCEPT ![q] = "main"]
            /\ pc_wake' = [pc_wake EXCEPT ![q] = now]
    /\ UNCHANGED <<pc_payload, pc_resp, pc_args, pc_lock, pc_waiters, pc_gpio,
                   pc_started, pc_ended>>
    /\ UNCHANGED <<pi5vars, fwvars, seqvars, rest_pc>>

\* the task leaves the lock: cooldown sleep outside it, or the end
pc_release(q) ==
    /\ pc_lock' = NoOwner
    /\ IF pc_args[q].cooldown_seconds > 0
       THEN /\ pc_task' = [pc_task EXCEPT ![q] = "cooldown"]
            /\ pc_wake' = [pc_wake EXCEPT ![q] = now + pc_args[q].cooldown_seconds]
       ELSE /\ pc_task' = [pc_task EXCEPT ![q] = "done"]
            /\ UNCHANGED pc_wake

\* asyncio.sleep(duration) returns: finally sets the pin inactive; the post
\* delay is slept inside the lock
dispense_task_stops(q) ==
    /\ pc_task[q] = "main"
    /\ now >= pc_wake[q]
    /\ pc_held' = [pc_held EXCEPT ![q] = @ + pc_args[q].duration_seconds]
    /\ pc_gpio' = [pc_gpio EXCEPT ![pc_pumps[pc_payload[q].id]] = "INACTIVE"]
    /\ pc_ended' = [pc_ended EXCEPT ![q] = now]
    /\ IF pc_args[q].post_dispense_delay_seconds > 0
       THEN /\ pc_task' = [pc_task EXCEPT ![q] = "post"]
            /\ pc_wake' = [pc_wake EXCEPT
                               ![q] = now + pc_args[q].post_dispense_delay_seconds]
            /\ UNCHANGED pc_lock
       ELSE pc_release(q)
    /\ UNCHANGED <<pc_payload, pc_resp, pc_args, pc_waiters, pc_started>>
    /\ UNCHANGED <<pi5vars, fwvars, seqvars, rest_pc>>

\* asyncio.sleep(post_delay) returns: the lock is released
dispense_task_post_done(q) ==
    /\ pc_task[q] = "post"
    /\ now >= pc_wake[q]
    /\ pc_release(q)
    /\ UNCHANGED <<pc_payload, pc_resp, pc_args, pc_waiters, pc_gpio, pc_started,
                   pc_ended, pc_held>>
    /\ UNCHANGED <<pi5vars, fwvars, seqvars, rest_pc>>

\* asyncio.sleep(cooldown) returns: the task ends
dispense_task_cooled(q) ==
    /\ pc_task[q] = "cooldown"
    /\ now >= pc_wake[q]
    /\ pc_task' = [pc_task EXCEPT ![q] = "done"]
    /\ UNCHANGED <<pc_payload, pc_resp, pc_args, pc_wake, pc_lock, pc_waiters,
                   pc_gpio, pc_started, pc_ended, pc_held>>
    /\ UNCHANGED <<pi5vars, fwvars, seqvars, rest_pc>>

(* ---------------- backend POST /iot/pour (iot/routes.py) -------------- *)

\* concurrent pour requests of one user
NPours == 1
\* ingredients (and ratios) per drink
MaxIngredients == 2

Pour == 1..NPours

PumpKeys == {"pump1", "pump2", "pump3"}

\* no pumpConfig document for the user
NoDoc == <<>>

\* normalize_to_snake_case on the ingredient names in use: lower case,
\* punctuation dropped, blanks and dashes to "_"
normalize_to_snake_case(text) ==
    CASE text = "Gin" -> "gin"
      [] text = "Tonic Water" -> "tonic_water"
      [] OTHER -> text

\* create_or_update_pump_config: the stored document, values normalized and
\* empty strings as None (here "")
config_doc(pump1, pump2, pump3) ==
    ("pump1" :> normalize_to_snake_case(pump1))
        @@ ("pump2" :> normalize_to_snake_case(pump2))
        @@ ("pump3" :> normalize_to_snake_case(pump3))

\* available_ingredients of lines 149-153
available_ingredients(config) ==
    {config[k] : k \in DOMAIN config} \ {""}

\* ingredient_to_pump of lines 213-217: a later pump key overwrites an earlier
\* one with the same ingredient; "" when the ingredient is on no pump
ingredient_to_pump(config, ingredient) ==
    IF config = NoDoc \/ ingredient = "" THEN ""
    ELSE IF config["pump3"] = ingredient THEN "pump3"
    ELSE IF config["pump2"] = ingredient THEN "pump2"
    ELSE IF config["pump1"] = ingredient THEN "pump1"
    ELSE ""

Min2(a, b) == IF a <= b THEN a ELSE b

\* the indices for which lines 225-238 build a DispenseStep
step_indices(drink, config) ==
    {i \in 1..Min2(Len(drink.ingredients), Len(drink.ratios)) :
        ingredient_to_pump(config, normalize_to_snake_case(drink.ingredients[i])) # ""}

\* DispenseStep(seconds = ratio / 100 * 5) fails validation (seconds: gt=0) for
\* one of them
step_validation_fails(drink, config) ==
    \E i \in step_indices(drink, config) : drink.ratios[i] <= 0

\* drink._pump_mapping of lines 245-252: normalized ingredient -> pump name,
\* empty when no steps were generated or the generation raised
pump_mapping_of(drink, config) ==
    IF config = NoDoc \/ step_validation_fails(drink, config)
          \/ step_indices(drink, config) = {}
    THEN <<>>
    ELSE [g \in {normalize_to_snake_case(drink.ingredients[i]) :
                    i \in {j \in 1..Len(drink.ingredients) :
                              ingredient_to_pump(config,
                                  normalize_to_snake_case(drink.ingredients[j])) # ""}}
             |-> ingredient_to_pump(config, g)]

pump_name_to_id == ("pump1" :> 1) @@ ("pump2" :> 2) @@ ("pump3" :> 3)

RECURSIVE build_steps(_, _, _, _)
\* build_firmware_command, the loop of lines 244-263 from index i on
build_steps(i, ingredients, ratios, mapping) ==
    IF i > Len(ingredients) \/ i > Len(ratios) THEN <<>>
    ELSE IF ratios[i] <= 0 THEN build_steps(i + 1, ingredients, ratios, mapping)
    ELSE IF /\ normalize_to_snake_case(ingredients[i]) \in DOMAIN mapping
            /\ mapping[normalize_to_snake_case(ingredients[i])] \in DOMAIN pump_name_to_id
    THEN <<[pump_id |-> pump_name_to_id[mapping[normalize_to_snake_case(ingredients[i])]],
            ratio |-> ratios[i]]>>
             \o build_steps(i + 1, ingredients, ratios, mapping)
    ELSE build_steps(i + 1, ingredients, ratios, mapping)

\* build_firmware_command: the steps; <<>> stands for the ValueError
build_firmware_command(drink, mapping) ==
    build_steps(1, drink.ingredients, drink.ratios, mapping)

NoPourRequest == [drink |-> [ingredients |-> <<>>, ratios |-> <<>>], user_id |-> FALSE]

NoPourResponse == [status |-> "", message |-> ""]

\* lines 128-204: the validation of a request with user_id against the pump
\* configuration; "" when it passes
validate_ingredients(drink, config) ==
    IF config = NoDoc THEN "No pump configuration found"
    ELSE IF available_ingredients(config) = {} THEN "No pumps are configured"
    ELSE IF \E i \in 1..Len(drink.ingredients) :
                normalize_to_snake_case(drink.ingredients[i])
                    \notin available_ingredients(config)
    THEN "Missing ingredients"
    ELSE ""

\* POST /iot/pump-config
create_or_update_pump_config(pump1, pump2, pump3) ==
    /\ pump_config' = config_doc(pump1, pump2, pump3)
    /\ UNCHANGED <<pour_pc, pour_request, pour_response, command_payload, http_outcome>>
    /\ UNCHANGED <<pi5vars, fwvars, seqvars, rest_be>>

\* POST /iot/pour up to the second get_pump_config: validation for requests
\* with user_id; without ratios or without user_id no steps are generated and
\* the request ends at lines 269-285
send_drink_to_firmware(r, drink, user_id) ==
    /\ pour_pc[r] = "idle"
    /\ pour_request' = [pour_request EXCEPT
                           ![r] = [drink |-> drink, user_id |-> user_id]]
    /\ IF user_id /\ validate_ingredients(drink, pump_config) # ""
       THEN /\ pour_pc' = [pour_pc EXCEPT ![r] = "done"]
            /\ pour_response' = [pour_response EXCEPT ![r] =
                  [status |-> "error",
                   message |-> validate_ingredients(drink, pump_config)]]
       ELSE IF drink.ratios = <<>>
       THEN /\ pour_pc' = [pour_pc EXCEPT ![r] = "done"]
            /\ pour_response' = [pour_response EXCEPT ![r] =
                  [status |-> "error", message |-> "Drink must have ratios to pour"]]
       ELSE IF ~user_id
       THEN /\ pour_pc' = [pour_pc EXCEPT ![r] = "done"]
            /\ pour_response' = [pour_response EXCEPT ![r] =
                  [status |-> "error", message |-> "No pump mapping available"]]
       ELSE /\ pour_pc' = [pour_pc EXCEPT ![r] = "generate"]
            /\ UNCHANGED pour_response
    /\ UNCHANGED <<pump_config, command_payload, http_outcome>>
    /\ UNCHANGED <<pi5vars, fwvars, seqvars, rest_be>>

\* lines 210-312: the configuration is read again, hardware steps and the pump
\* mapping are generated, the command is built and posted to the firmware
pour_generates(r) ==
    /\ pour_pc[r] = "generate"
    /\ LET drink == pour_request[r].drink
           mapping == pump_mapping_of(drink, pump_config)
       IN  IF mapping = <<>>
           THEN /\ pour_pc' = [pour_pc EXCEPT ![r] = "done"]
                /\ pour_response' = [pour_response EXCEPT ![r] =
                      [status |-> "error", message |-> "No pump mapping available"]]
                /\ UNCHANGED command_payload
           ELSE IF build_firmware_command(drink, mapping) = <<>>
           THEN /\ pour_pc' = [pour_pc EXCEPT ![r] = "done"]
                /\ pour_response' = [pour_response EXCEPT ![r] =
                      [status |-> "error",
                       message |-> "No valid pump steps could be generated"]]
                /\ UNCHANGED command_payload
           ELSE /\ pour_pc' = [pour_pc EXCEPT ![r] = "sent"]
                /\ command_payload' = [command_payload EXCEPT
                                          ![r] = build_firmware_command(drink, mapping)]
                /\ UNCHANGED pour_response
    /\ UNCHANGED <<pump_config, pour_request, http_outcome>>
    /\ UNCHANGED <<pi5vars, fwvars, seqvars, rest_be>>

\* the JSON object build_firmware_command returns: its only key is "steps"
command_json(steps) == [steps |-> steps]

\* request schema of the firmware service's POST /iot/drink: DrinkRequest
\* requires the key "drink"
DrinkRequest_accepts(body) == "drink" \in DOMAIN body

\* request schema of the Pi5 service's POST /iot/drink: PourRequest requires the
\* key "drink"
PourRequest_accepts(body) == "drink" \in DOMAIN body

\* request schema of the pi-controller's POST /iot/drink: PourRequest requires
\* the key "pump"
PcPourRequest_accepts(body) == "pump" \in DOMAIN body

\* what httpx makes of the POST: no connection, no answer within the timeout,
\* or a response with a status code and, in its JSON body, a "status" ("" when
\* the body has none)
NoOutcome == [kind |-> "none", status_code |-> 0, body_status |-> ""]

ConnectError == [kind |-> "connect_error", status_code |-> 0, body_status |-> ""]

TimeoutException == [kind |-> "timeout", status_code |-> 0, body_status |-> ""]

Response(status_code, body_status) ==
    [kind |-> "response", status_code |-> status_code, body_status |-> body_status]

\* response.is_success
is_success(outcome) == outcome.status_code >= 200 /\ outcome.status_code <= 299

Raised(reason) == [raised |-> TRUE, reason |-> reason, status |-> ""]

Returned(body_status) == [raised |-> FALSE, reason |-> "", status |-> body_status]

\* the same without response.raise_for_status()
send_drink_request_unchecked(outcome) ==
    IF outcome.kind # "response" THEN Raised(outcome.kind)
    ELSE Returned(outcome.body_status)

\* FirmwareClient.send_drink_request: the exception it re-raises, or the JSON
\* body of a 2xx response
send_drink_request(outcome) ==
    IF outcome.kind # "response" THEN Raised(outcome.kind)
    ELSE IF ~is_success(outcome) THEN Raised("status")
    ELSE Returned(outcome.body_status)

\* lines 311-346: the awaited send_drink_request returns or raises
firmware_replies(r, outcome) ==
    /\ pour_pc[r] = "sent"
    /\ pour_pc' = [pour_pc EXCEPT ![r] = "done"]
    /\ http_outcome' = [http_outcome EXCEPT ![r] = outcome]
    /\ LET result == send_drink_request(outcome)
           status == IF result.status = "" THEN "ok" ELSE result.status
       IN  pour_response' = [pour_response EXCEPT ![r] =
              IF result.raised
              THEN [status |-> "error", message |-> "Failed to communicate with firmware"]
              ELSE IF status # "ok" THEN [status |-> "error", message |-> "firmware"]
              ELSE [status |-> "ok", message |-> "Dispensing started."]]
    /\ UNCHANGED <<pump_config, pour_request, command_payload>>
    /\ UNCHANGED <<pi5vars, fwvars, seqvars, rest_be>>

(* ------------- PumpController.cleanup() and process shutdown ---------- *)

\* direct calls of cleanup() by the owner of a controller
MaxCleanupCalls == 2
\* activations attempted over the life of a controller
MaxActivations == 2

LcImpl == {"pi5", "pi-controller", "firmware"}

LcPumps == DOMAIN mapping_pumps

\* cleanup() registered with atexit by __init__
registers_atexit(i) == i \in {"pi5", "firmware"}

\* cleanup() called by the application's shutdown event handler
shutdown_hook_cleans(i) == i \in {"pi5", "pi-controller"}

\* cleanup() takes the controller's RLock (the pi-controller's does not)
cleanup_takes_lock(i) == i \in {"pi5", "firmware"}

\* cleanup(): `for pin in pumps: GPIO.output(pin, inactive)` raises RuntimeError
\* on a channel that is not set up as an output, which is every channel once
\* GPIO.cleanup() has run
cleanup_raises(hardware, g) ==
    hardware /\ \E p \in DOMAIN g : g[p] = "IN"

\* cleanup(): with hardware, all pins to the inactive level, then GPIO.cleanup()
\* returns every channel to input; nothing in simulation
cleanup_gpio(hardware, g) ==
    IF hardware /\ ~cleanup_raises(hardware, g) THEN [p \in DOMAIN g |-> "IN"] ELSE g

\* one call of cleanup()
cleanup ==
    /\ cleanup_takes_lock(lc_impl) => lc_busy = ""
    /\ lc_cleanup_calls' = lc_cleanup_calls + 1
    /\ lc_cleanup_raised' =
           lc_cleanup_raised + (IF cleanup_raises(lc_hardware, lc_gpio) THEN 1 ELSE 0)
    /\ lc_gpio' = cleanup_gpio(lc_hardware, lc_gpio)
    /\ UNCHANGED <<lc_impl, lc_hardware, lc_busy, lc_failed, lc_started>>

\* a pump's hold begins: the pin is driven active; GPIO.output raises when the
\* channel is no longer set up
lc_activate(pump) ==
    /\ lc_phase = "serving"
    /\ lc_busy = ""
    /\ lc_started < MaxActivations
    /\ lc_started' = lc_started + 1
    /\ IF lc_hardware /\ lc_gpio[pump] = "IN"
       THEN /\ lc_failed' = lc_failed + 1
            /\ UNCHANGED <<lc_gpio, lc_busy>>
       ELSE /\ lc_busy' = pump
            /\ lc_gpio' = IF lc_hardware THEN [lc_gpio EXCEPT ![pump] = "HIGH"]
                          ELSE lc_gpio
            /\ UNCHANGED lc_failed
    /\ UNCHANGED <<lc_impl, lc_hardware, lc_phase, lc_trigger, lc_cleanup_calls,
                   lc_cleanup_raised>>
    /\ UNCHANGED <<pi5vars, fwvars, seqvars, rest_lc>>

\* the hold ends: the pin is driven inactive (raises after a cleanup in between)
lc_deactivate ==
    /\ lc_busy # ""
    /\ lc_busy' = ""
    /\ IF lc_hardware /\ lc_gpio[lc_busy] = "IN"
       THEN lc_failed' = lc_failed + 1 /\ UNCHANGED lc_gpio
       ELSE /\ lc_gpio' = IF lc_hardware THEN [lc_gpio EXCEPT ![lc_busy] = "LOW"]
                          ELSE lc_gpio
            /\ UNCHANGED lc_failed
    /\ UNCHANGED <<lc_impl, lc_hardware, lc_phase, lc_trigger, lc_cleanup_calls,
                   lc_cleanup_raised, lc_started>>
    /\ UNCHANGED <<pi5vars, fwvars, seqvars, rest_lc>>

\* the owner calls controller.cleanup() while the process runs
cleanup_called ==
    /\ lc_phase = "serving"
    /\ lc_cleanup_calls < MaxCleanupCalls
    /\ cleanup
    /\ UNCHANGED <<lc_phase, lc_trigger>>
    /\ UNCHANGED <<pi5vars, fwvars, seqvars, rest_lc>>

\* the server stops serving: it returned normally or handled SIGINT / SIGTERM
shutdown_begins(trigger) ==
    /\ lc_phase = "serving"
    /\ lc_phase' = "stopping"
    /\ lc_trigger' = trigger
    /\ UNCHANGED <<lc_impl, lc_hardware, lc_gpio, lc_busy, lc_cleanup_calls,
                   lc_cleanup_raised, lc_failed, lc_started>>
    /\ UNCHANGED <<pi5vars, fwvars, seqvars, rest_lc>>

\* the application's shutdown event: _shutdown of the Pi5 app and of the
\* pi-controller call cleanup(); the firmware app has no shutdown handler
_shutdown ==
    /\ lc_phase = "stopping"
    /\ lc_phase' = "stopped"
    /\ IF shutdown_hook_cleans(lc_impl)
       THEN cleanup
       ELSE UNCHANGED <<lc_impl, lc_hardware, lc_gpio, lc_busy, lc_cleanup_calls,
                        lc_cleanup_raised, lc_failed, lc_started>>
    /\ UNCHANGED lc_trigger
    /\ UNCHANGED <<pi5vars, fwvars, seqvars, rest_lc>>

\* interpreter exit: the atexit callbacks run
atexit_runs ==
    /\ lc_phase = "stopped"
    /\ lc_phase' = "exited"
    /\ IF registers_atexit(lc_impl)
       THEN cleanup
       ELSE UNCHANGED <<lc_impl, lc_hardware, lc_gpio, lc_busy, lc_cleanup_calls,
                        lc_cleanup_raised, lc_failed, lc_started>>
    /\ UNCHANGED lc_trigger
    /\ UNCHANGED <<pi5vars, fwvars, seqvars, rest_lc>>

(* ------------- Pi5 routes behind enforce_token (routes/api.py) ------- *)

\* no token configured: settings.firmware_auth_token is None
NoToken == ""

\* request.headers.get(name) of a header the request does not carry
NoHeader == "(absent)"

NoAuthorization == [present |-> FALSE, scheme |-> "", credentials |-> ""]

\* "Authorization: <scheme> <credentials>"
Authorization(scheme, credentials) ==
    [present |-> TRUE, scheme |-> scheme, credentials |-> credentials]

NoRequest ==
    [sent |-> FALSE, x_firmware_token |-> NoHeader, authorization |-> NoAuthorization,
     body_valid |-> FALSE]

\* str.lower() on the schemes that occur
Lower(scheme) ==
    CASE scheme = "Bearer" -> "bearer"
      [] scheme = "BEARER" -> "bearer"
      [] scheme = "Basic" -> "basic"
      [] OTHER -> scheme

\* the token enforce_token compares: the custom header when it is non-empty,
\* else the credentials of a Bearer Authorization header, else what the custom
\* header lookup returned
provided_token(request) ==
    IF request.x_firmware_token # NoHeader /\ request.x_firmware_token # ""
    THEN request.x_firmware_token
    ELSE IF request.authorization.present
            /\ Lower(request.authorization.scheme) = "bearer"
         THEN request.authorization.credentials
         ELSE request.x_firmware_token

\* enforce_token raises HTTPException(401)
enforce_token_raises(request, expected_token) ==
    /\ expected_token # NoToken
    /\ provided_token(request) # expected_token

\* the status a request is turned away with before its route does anything:
\* 422 from the validation of the declared body, which FastAPI performs before
\* it calls the route function, else 401 from enforce_token, else 0
rejection_status(request, expected_token) ==
    IF ~request.body_valid THEN 422
    ELSE IF enforce_token_raises(request, expected_token) THEN 401
    ELSE 0

\* a client sends a request to one of the four dispensing routes
client_sends(c, x_firmware_token, authorization, body_valid) ==
    /\ pc[c] = "idle"
    /\ ~http_request[c].sent
    /\ http_request' = [http_request EXCEPT ![c] =
          [sent |-> TRUE, x_firmware_token |-> x_firmware_token,
           authorization |-> authorization, body_valid |-> body_valid]]
    /\ UNCHANGED firmware_auth_token
    /\ UNCHANGED <<pi5vars, fwvars, seqvars, rest_au>>

\* the request is answered without its route having called the manager or the
\* controller
request_rejected(c) ==
    /\ pc[c] = "idle"
    /\ http_request[c].sent
    /\ rejection_status(http_request[c], firmware_auth_token) # 0
    /\ pc' = [pc EXCEPT ![c] = "failed"]
    /\ resp' = [resp EXCEPT ![c] =
          ErrorResponse(rejection_status(http_request[c], firmware_auth_token),
                        IF http_request[c].body_valid THEN "Invalid token"
                        ELSE "validation")]
    /\ UNCHANGED <<max_parallel_jobs, hardware_available, todo, cur, pause, results, thr,
                   semaphore, waiters, queue_depth, current_run_id, lock, pin,
                   cooldowns, activations, actOrder>>
    /\ UNCHANGED <<fwvars, seqvars, extvars>>

\* the route function runs past enforce_token
request_passes(c) ==
    /\ http_request[c].sent
    /\ rejection_status(http_request[c], firmware_auth_token) = 0

\* DispensePlan.pause_between's default of 0.25 s, in the model's whole units
DispensePlan_pause_between == 1

NoPlan == [given |-> FALSE, steps |-> <<>>, pause_between |-> 0]

\* DispenseManager._plan_from_drink; NoPlan stands for its ValueError
_plan_from_drink(drink) ==
    IF drink.hardware_steps # <<>>
    THEN [given |-> TRUE, steps |-> drink.hardware_steps,
          pause_between |-> DispensePlan_pause_between]
    ELSE drink.dispense

\* POST /iot/drink
receive_drink(r, drink) ==
    /\ request_passes(r)
    /\ IF _plan_from_drink(drink).given
       THEN Submit(r, _plan_from_drink(drink).steps, _plan_from_drink(drink).pause_between)
       ELSE /\ pc[r] = "idle"
            /\ pc' = [pc EXCEPT ![r] = "failed"]
            /\ resp' = [resp EXCEPT ![r] = ErrorResponse(400, "no_plan")]
            /\ UNCHANGED <<max_parallel_jobs, hardware_available, todo, cur, pause,
                           results, thr, semaphore, waiters, queue_depth,
                           current_run_id, lock, pin, cooldowns, activations, actOrder>>
            /\ UNCHANGED <<fwvars, seqvars, extvars>>

\* POST /dispense
dispense_steps(r, steps, pause_between) ==
    /\ request_passes(r)
    /\ Submit(r, steps, pause_between)

\* POST /pumps/{pump_name}/prime
prime_pump(d, pump_name, seconds) ==
    /\ request_passes(d)
    /\ PrimePump(d, pump_name, seconds)

\* POST /pumps/{pump_name}/calibrate
calibrate_pump(d, pump_name, seconds) ==
    /\ request_passes(d)
    /\ CalibratePump(d, pump_name, seconds)

(* ------ backend WebSocketConnectionManager (websocket_service.py) ----- *)

\* connections opened for the one client_id over the life of the manager
NConnections == 3

Connection == 1..NConnections

NoSocket == 0

\* is_connected(client_id)
is_connected == active_connections # NoSocket

\* disconnect(client_id) under the lock: the entry of the client_id is deleted,
\* whichever websocket it maps to
disconnect(registered) == NoSocket

\* handle_connection is called for a new websocket; accept() takes the lock and
\* either finds no entry and goes on to await websocket.accept(), or pops the
\* entry and awaits old_ws.close() with the lock held
accept(c) ==
    /\ ws_pc[c] = "new"
    /\ ws_lock = NoSocket
    /\ IF is_connected
       THEN /\ ws_old' = [ws_old EXCEPT ![c] = active_connections]
            /\ active_connections' = NoSocket
            /\ ws_lock' = c
            /\ ws_pc' = [ws_pc EXCEPT ![c] = "closing_old"]
       ELSE /\ ws_pc' = [ws_pc EXCEPT ![c] = "accepting"]
            /\ UNCHANGED <<active_connections, ws_lock, ws_old>>
    /\ UNCHANGED <<ws_state, ws_latest>>
    /\ UNCHANGED <<pi5vars, fwvars, seqvars, rest_ws>>

\* old_ws.close(code=1001) returns: the old connection is closed, the lock is
\* released, websocket.accept() is awaited
old_ws_closed(c) ==
    /\ ws_pc[c] = "closing_old"
    /\ ws_state' = [ws_state EXCEPT ![ws_old[c]] = "closed"]
    /\ ws_lock' = NoSocket
    /\ ws_pc' = [ws_pc EXCEPT ![c] = "accepting"]
    /\ UNCHANGED <<active_connections, ws_old, ws_latest>>
    /\ UNCHANGED <<pi5vars, fwvars, seqvars, rest_ws>>

\* websocket.accept() returns: the websocket is registered under the lock,
\* accept() returns True, handle_connection reads the entry back and awaits
\* receive_text(); when the client has gone meanwhile receive_text() raises
accept_returns(c) ==
    /\ ws_pc[c] = "accepting"
    /\ ws_lock = NoSocket
    /\ active_connections' = c
    /\ ws_latest' = c
    /\ ws_state' = [ws_state EXCEPT ![c] = IF @ = "new" THEN "open" ELSE @]
    /\ ws_pc' = [ws_pc EXCEPT ![c] = "receiving"]
    /\ UNCHANGED <<ws_lock, ws_old>>
    /\ UNCHANGED <<pi5vars, fwvars, seqvars, rest_ws>>

\* the client closes its connection, or gives up before the handshake is answered
client_closes(c) ==
    /\ ws_pc[c] \in {"accepting", "receiving"}
    /\ ws_state[c] \in {"new", "open"}
    /\ ws_state' = [ws_state EXCEPT ![c] = "closed"]
    /\ UNCHANGED <<active_connections, ws_lock, ws_pc, ws_old, ws_latest>>
    /\ UNCHANGED <<pi5vars, fwvars, seqvars, rest_ws>>

\* receive_text() raises WebSocketDisconnect on a closed connection: the loop
\* is left and the finally clause calls disconnect(client_id)
handler_cleanup(c) ==
    /\ ws_pc[c] = "receiving"
    /\ ws_state[c] = "closed"
    /\ ws_lock = NoSocket
    /\ active_connections' = disconnect(active_connections)
    /\ ws_pc' = [ws_pc EXCEPT ![c] = "done"]
    /\ UNCHANGED <<ws_lock, ws_state, ws_old, ws_latest>>
    /\ UNCHANGED <<pi5vars, fwvars, seqvars, rest_ws>>

(* --------------------------- specifications -------------------------- *)

\* steps that carry explicit seconds
SecondsSteps ==
    {[pump |-> p, seconds |-> s, ml |-> None, prime |-> FALSE] :
        p \in PumpNames, s \in SecondsVals}

\* steps of one second on pump "a" or on the unmapped pump
GateSteps == {st \in SecondsSteps : st.seconds = 1 /\ st.pump # "b"}

PlansOver(S) == UNION {[1..n -> S] : n \in 0..MaxSteps}

InitPi5(jobs) ==
    /\ max_parallel_jobs \in jobs
    /\ hardware_available = TRUE
    /\ pc = [c \in Caller |-> "idle"]
    /\ todo = [c \in Caller |-> <<>>]
    /\ cur = [c \in Caller |-> NoStep]
    /\ pause = [c \in Caller |-> 0]
    /\ results = [c \in Caller |-> <<>>]
    /\ resp = [c \in Caller |-> NoResponse]
    /\ thr = [c \in Caller |-> "none"]
    /\ semaphore = max_parallel_jobs
    /\ waiters = <<>>
    /\ queue_depth = 0
    /\ current_run_id = None
    /\ lock = NoOwner
    /\ pin = [p \in Pin |-> "LOW"]
    /\ cooldowns = [p \in DOMAIN mapping_pumps |-> None]
    /\ activations = [c \in Caller |-> 0]
    /\ actOrder = <<>>

InitFirmware(available) ==
    /\ GPIO_AVAILABLE \in available
    /\ handler = [q \in FwRequest |-> "idle"]
    /\ pump_tasks = [q \in FwRequest |-> <<>>]
    /\ closure = [q \in FwRequest |-> [pin |-> None, duration |-> Number(0)]]
    /\ pins_to_control = [q \in FwRequest |-> {}]
    /\ gpio = [p \in GpioPin |-> "IN"]
    /\ task_pins = [q \in FwRequest |-> <<>>]
    /\ skipped = [q \in FwRequest |-> 0]
    /\ holds_requested = [q \in FwRequest |-> 0]

InitSeq ==
    /\ impl = "pi5"
    /\ seq_pc = "idle"
    /\ seq_steps = <<>>
    /\ seq_idx = 0
    /\ seq_pause = 0
    /\ events = <<>>

InitTimed ==
    /\ now = 0
    /\ t_thr = [c \in TimedCall |-> "idle"]
    /\ t_pump = [c \in TimedCall |-> ""]
    /\ t_wake = [c \in TimedCall |-> 0]
    /\ t_lock = NoOwner
    /\ t_pin = [p \in Pin |-> "LOW"]
    /\ t_cooldowns = [p \in DOMAIN mapping_pumps |-> None]
    /\ t_requested = [c \in TimedCall |-> None]
    /\ t_started = [c \in TimedCall |-> None]
    /\ t_prev_end = [c \in TimedCall |-> None]
    /\ last_end = [p \in DOMAIN mapping_pumps |-> None]

InitPiController ==
    /\ pc_payload = [q \in PcRequest |-> NoPayload]
    /\ pc_resp = [q \in PcRequest |-> NoPcResponse]
    /\ pc_task = [q \in PcRequest |-> "none"]
    /\ pc_args = [q \in PcRequest |-> NoTiming]
    /\ pc_wake = [q \in PcRequest |-> 0]
    /\ pc_lock = NoOwner
    /\ pc_waiters = <<>>
    /\ pc_gpio = [p \in {pc_pumps[i] : i \in DOMAIN pc_pumps} |-> "INACTIVE"]
    /\ pc_started = [q \in PcRequest |-> None]
    /\ pc_ended = [q \in PcRequest |-> None]
    /\ pc_held = [q \in PcRequest |-> 0]

InitBackend ==
    /\ pump_config = NoDoc
    /\ pour_pc = [r \in Pour |-> "idle"]
    /\ pour_request = [r \in Pour |-> NoPourRequest]
    /\ pour_response = [r \in Pour |-> NoPourResponse]
    /\ command_payload = [r \in Pour |-> <<>>]
    /\ http_outcome = [r \in Pour |-> NoOutcome]

InitLifecycle(impls, hardware) ==
    /\ lc_impl \in impls
    /\ lc_hardware \in hardware
    /\ lc_phase = "serving"
    /\ lc_gpio = [p \in LcPumps |-> IF lc_hardware THEN "LOW" ELSE "IN"]
    /\ lc_busy = ""
    /\ lc_cleanup_calls = 0
    /\ lc_cleanup_raised = 0
    /\ lc_failed = 0
    /\ lc_started = 0
    /\ lc_trigger = ""

\* no request sent yet
InitAuth(tokens) ==
    /\ firmware_auth_token \in tokens
    /\ http_request = [c \in Caller |-> NoRequest]

InitWebsocket ==
    /\ active_connections = NoSocket
    /\ ws_lock = NoSocket
    /\ ws_pc = [c \in Connection |-> "new"]
    /\ ws_state = [c \in Connection |-> "new"]
    /\ ws_old = [c \in Connection |-> NoSocket]
    /\ ws_latest = NoSocket

\* every part in its initial state
InitExtOf(impls, hardware, tokens) ==
    /\ InitTimed /\ InitPiController /\ InitBackend
    /\ InitLifecycle(impls, hardware)
    /\ InitAuth(tokens)
    /\ InitWebsocket

\* the Pi5 build on a board with GPIO, no token configured
InitExt == InitExtOf({"pi5"}, {TRUE}, {NoToken})

\* The Pi5 service under concurrent /dispense requests.
Init == InitPi5(1..MaxParallelJobs) /\ InitFirmware({TRUE}) /\ InitSeq /\ InitExt

Next ==
    \/ \E r \in 1..NRuns, steps \in PlansOver(SecondsSteps), dp \in {None, 0} :
          Submit(r, steps, dp)
    \/ \E r \in Run : Wake(r)
    \/ \E c \in Run : ThreadStart(c)
    \/ \E c \in Run : ThreadEnd(c)
    \/ \E r \in Run : ThreadReturn(r)
    \/ \E r \in Run : PauseDone(r)
    \/ \E r \in Run : Timeout(r)
    \/ \E r \in Run : Cancel(r)

Spec == Init /\ [][Next]_vars

\* The device-wide gate: more requests, one permit, steps that run or are rejected.
InitGate == InitPi5({1}) /\ InitFirmware({TRUE}) /\ InitSeq /\ InitExt

NextGate ==
    \/ \E r \in 1..NGateRuns, steps \in PlansOver(GateSteps) : Submit(r, steps, 0)
    \/ \E r \in Run : Wake(r)
    \/ \E c \in Run : ThreadStart(c)
    \/ \E c \in Run : ThreadEnd(c)
    \/ \E r \in Run : ThreadReturn(r)
    \/ \E r \in Run : Timeout(r)

SpecGate == InitGate /\ [][NextGate]_vars

\* the same, with worker threads that end their hold: time.sleep(seconds) returns
SpecGateFair == SpecGate /\ \A c \in Run : WF_vars(ThreadEnd(c))

\* PumpController.dispense called straight from the prime and calibrate routes.
InitController == InitPi5({1}) /\ InitFirmware({TRUE}) /\ InitSeq /\ InitExt

NextController ==
    \/ \E d \in Direct, p \in PumpNames, s \in SecondsVals \cup {None} : PrimePump(d, p, s)
    \/ \E d \in Direct, p \in PumpNames, s \in SecondsVals : CalibratePump(d, p, s)
    \/ \E c \in Direct : ThreadStart(c)
    \/ \E c \in Direct : ThreadEnd(c)
    \/ \E d \in Direct : DirectReturn(d)

SpecController == InitController /\ [][NextController]_vars

\* The firmware's /iot/drink handler under concurrent requests.
FwPumpNames == {"pump1", "pump2", "pumpX"}

\* defaults["max_run_seconds"] of the firmware's pump configuration
fw_max_run_seconds == MaxRunSeconds

FwSteps ==
    {[pump |-> p, seconds |-> s, description |-> d] :
        p \in FwPumpNames,
        s \in {Number(0), Number(1), Number(fw_max_run_seconds + 1), Text},
        d \in {"", "Vodka (50%)"}}

FwPlans == UNION {[1..n -> FwSteps] : n \in 0..MaxFwSteps}

\* drink["pump_mapping"]: absent, or the ingredient on pump1
FwPumpMappings == {<<>>, ("Vodka" :> "pump1")}

InitFw == InitPi5({1}) /\ InitFirmware(BOOLEAN) /\ InitSeq /\ InitExt

NextFirmware ==
    \/ \E q \in FwRequest, hs \in FwPlans, pm \in FwPumpMappings :
          receive_drink_request(q, hs, pm)
    \/ \E q \in FwRequest, i \in 1..MaxFwSteps : run_pump(q, i)
    \/ \E q \in FwRequest, i \in 1..MaxFwSteps : run_pump_wakes(q, i)
    \/ \E q \in FwRequest : gather_returns(q)
    \/ \E q \in FwRequest : gather_raises(q)
    \/ \E q \in FwRequest : cancel_request(q)

SpecFirmware == InitFw /\ [][NextFirmware]_vars

\* One sequential run of each of the three step loops.
SeqSteps == {[pump |-> p, seconds |-> s] : p \in {"a", "x"}, s \in SecondsVals}

SeqPlans == UNION {[1..n -> SeqSteps] : n \in 0..MaxSteps}

InitSequential == InitPi5({1}) /\ InitFirmware({TRUE}) /\ InitSeq /\ InitExt

NextSeq ==
    \/ \E i \in Impl, steps \in SeqPlans, pb \in {0, 1} : seq_start(i, steps, pb)
    \/ \E steps \in SeqPlans : seq_start("firmware", steps, None)
    \/ seq_step_ends
    \/ seq_pause_ends

SpecSeq == InitSequential /\ [][NextSeq]_vars

\* PumpController.dispense called concurrently, against the clock.
InitCooldown == InitPi5({1}) /\ InitFirmware({TRUE}) /\ InitSeq /\ InitExt

NextCooldown ==
    \/ \E c \in TimedCall, p \in DOMAIN mapping_pumps : timed_dispense(c, p)
    \/ \E c \in TimedCall : timed_lock(c)
    \/ \E c \in TimedCall : timed_cooled(c)
    \/ \E c \in TimedCall : timed_end(c)
    \/ Tick

SpecCooldown == InitCooldown /\ [][NextCooldown]_vars

\* The pi-controller under concurrent POST /iot/drink requests, against the clock.
PcPayloads ==
    {p \in [id : {"p1", "px"}, gpio_pin : {17, 27},
            duration_seconds : {1, pc_max_run_seconds + 1},
            prime_seconds : {0, 1, pc_max_run_seconds},
            post_dispense_delay_seconds : {0, 1},
            cooldown_seconds : {0, default_cooldown + 1}] :
        \/ _require_pump(p) = ""
        \/ /\ p.duration_seconds = 1 /\ p.prime_seconds = 0
           /\ p.post_dispense_delay_seconds = 0 /\ p.cooldown_seconds = 0
           /\ (p.id = "p1" \/ p.gpio_pin = 17)}

InitPc == InitPi5({1}) /\ InitFirmware({TRUE}) /\ InitSeq /\ InitExt

NextPc ==
    \/ \E q \in PcRequest, p \in PcPayloads : start_dispense(q, p)
    \/ \E q \in PcRequest : dispense_task_starts(q)
    \/ \E q \in PcRequest : dispense_task_acquires(q)
    \/ \E q \in PcRequest : dispense_task_primed(q)
    \/ \E q \in PcRequest : dispense_task_stops(q)
    \/ \E q \in PcRequest : dispense_task_post_done(q)
    \/ \E q \in PcRequest : dispense_task_cooled(q)
    \/ Tick

SpecPc == InitPc /\ [][NextPc]_vars

\* The backend's POST /iot/pour and POST /iot/pump-config.
IngredientNames == {"Gin", "Tonic Water"}

RatioValues == {0, 50, 100}

RECURSIVE sum(_)
sum(v) == IF v = <<>> THEN 0 ELSE Head(v) + sum(Tail(v))

\* the validator of Drink.ratios passes; <<>> stands for ratios left out
ratios_must_sum_to_100(ingredients, v) ==
    \/ v = <<>>
    \/ /\ ingredients # <<>> => Len(v) = Len(ingredients)
       /\ sum(v) = 100

\* the drinks a PourRequest can carry
Drinks ==
    {d \in [ingredients : UNION {[1..n -> IngredientNames] : n \in 0..MaxIngredients},
            ratios : UNION {[1..n -> RatioValues] : n \in 0..MaxIngredients}] :
        ratios_must_sum_to_100(d.ingredients, d.ratios)}

\* the firmware does not answer, or answers 200 with or without a "status", or
\* with an error status and FastAPI's {"detail": ...} body
HttpOutcomes ==
    {ConnectError, TimeoutException, Response(200, "ok"), Response(200, "error"),
     Response(200, ""), Response(422, ""), Response(500, "")}

InitPour == InitPi5({1}) /\ InitFirmware({TRUE}) /\ InitSeq /\ InitExt

NextPour ==
    \/ \E p1, p2, p3 \in IngredientNames \cup {""} :
          create_or_update_pump_config(p1, p2, p3)
    \/ \E r \in Pour, d \in Drinks, u \in BOOLEAN : send_drink_to_firmware(r, d, u)
    \/ \E r \in Pour : pour_generates(r)
    \/ \E r \in Pour, outcome \in HttpOutcomes : firmware_replies(r, outcome)

SpecPour == InitPour /\ [][NextPour]_vars

\* One controller, its activations, and direct calls of cleanup().
InitCleanup ==
    InitPi5({1}) /\ InitFirmware({TRUE}) /\ InitSeq /\ InitExtOf(LcImpl, BOOLEAN, {NoToken})

NextCleanup ==
    \/ \E p \in LcPumps : lc_activate(p)
    \/ lc_deactivate
    \/ cleanup_called

SpecCleanup == InitCleanup /\ [][NextCleanup]_vars

\* One controller, its activations, and the shutdown of its process.
NextShutdown ==
    \/ \E p \in LcPumps : lc_activate(p)
    \/ lc_deactivate
    \/ \E trigger \in {"normal", "signal"} : shutdown_begins(trigger)
    \/ _shutdown
    \/ atexit_runs

SpecShutdown == InitCleanup /\ [][NextShutdown]_vars

\* The Pi5 routes with and without a configured token: one queued request and
\* one direct request, each with any combination of headers.
Tokens == {NoToken, "tok"}

XFirmwareTokenValues == {NoHeader, "", "tok", "bad"}

AuthorizationValues ==
    {NoAuthorization, Authorization("Bearer", "tok"), Authorization("BEARER", "bad"),
     Authorization("Basic", "tok")}

AuthRun == 1

AuthDirect == -2

AuthSteps == {<<>>} \cup {<<st>> : st \in GateSteps}

AuthDrinks ==
    {[hardware_steps |-> hs, dispense |-> d] :
        hs \in AuthSteps,
        d \in {NoPlan, [given |-> TRUE, steps |-> <<CHOOSE st \in GateSteps : st.pump = "a">>,
                        pause_between |-> 0]}}

InitAuthSpec ==
    InitPi5({1}) /\ InitFirmware({TRUE}) /\ InitSeq /\ InitExtOf({"pi5"}, {TRUE}, Tokens)

NextAuth ==
    \/ \E c \in {AuthRun, AuthDirect}, x \in XFirmwareTokenValues,
          a \in AuthorizationValues, v \in BOOLEAN : client_sends(c, x, a, v)
    \/ \E c \in {AuthRun, AuthDirect} : request_rejected(c)
    \/ \E drink \in AuthDrinks : receive_drink(AuthRun, drink)
    \/ \E steps \in AuthSteps : dispense_steps(AuthRun, steps, None)
    \/ prime_pump(AuthDirect, "a", None)
    \/ \E p \in {"a", "x"} : calibrate_pump(AuthDirect, p, 1)
    \/ \E c \in {AuthRun, AuthDirect} : ThreadStart(c)
    \/ \E c \in {AuthRun, AuthDirect} : ThreadEnd(c)
    \/ ThreadReturn(AuthRun)
    \/ DirectReturn(AuthDirect)

SpecAuth == InitAuthSpec /\ [][NextAuth]_vars

\* The Pi5 /dispense route under steps given by seconds, by ml or as prime,
\* or by none of them, on a pump with a flow rate and on one without.
ResolveSteps ==
    {st \in [pump : DOMAIN mapping_pumps, seconds : {None, 1}, ml : {None, 1},
             prime : BOOLEAN] :
        st.prime => (st.seconds = None /\ st.ml = None)}

InitResolve == InitPi5({1}) /\ InitFirmware({TRUE}) /\ InitSeq /\ InitExt

NextResolve ==
    \/ \E r \in 1..NGateRuns, steps \in PlansOver(ResolveSteps) :
          Submit(r, steps, None)
    \/ \E r \in Run : Wake(r)
    \/ \E c \in Run : ThreadStart(c)
    \/ \E c \in Run : ThreadEnd(c)
    \/ \E r \in Run : ThreadReturn(r)
    \/ \E r \in Run : PauseDone(r)

SpecResolve == InitResolve /\ [][NextResolve]_vars

\* The backend's WebSocket endpoint under connections of one client_id.
InitWs == InitPi5({1}) /\ InitFirmware({TRUE}) /\ InitSeq /\ InitExt

NextWs ==
    \/ \E c \in Connection : accept(c)
    \/ \E c \in Connection : old_ws_closed(c)
    \/ \E c \in Connection : accept_returns(c)
    \/ \E c \in Connection : client_closes(c)
    \/ \E c \in Connection : handler_cleanup(c)

SpecWs == InitWs /\ [][NextWs]_vars

(* ------------------------------ claims ------------------------------- *)

InFlight == {r \in Run : pc[r] \in {"thread", "pause"}}

Waiting == {r \in Run : pc[r] = "waiting"}

ValidationErrors == {"nonpositive", "safety", "unknown_pump"}

\* C1: a call of PumpController.dispense with seconds above max_run_seconds fails
\* with the safety-limit error, and that call starts no worker thread, takes no
\* lock, drives no pin and stamps no cooldown.
C1_SafetyLimitRejected ==
    \A c \in Direct :
        cur[c].seconds > max_run_seconds =>
            /\ pc[c] = "failed"
            /\ resp[c] = ErrorResponse(400, "safety")
            /\ thr[c] = "none"
            /\ lock # c
            /\ activations[c] = 0
            /\ \A p \in DOMAIN cooldowns : cooldowns[p] # c

\* C1 witness: a call above the ceiling was rejected while another call holds a pin active
C1_Witness ==
    \E c, d \in Direct :
        /\ cur[c].seconds > max_run_seconds /\ cur[c].pump \in DOMAIN mapping_pumps
        /\ pc[c] = "failed"
        /\ thr[d] = "active"

\* the logical steps of the firmware handler whose activation is under way
Driving == {t \in FwRequest \X (1..MaxFwSteps) :
               t[2] \in DOMAIN pump_tasks[t[1]] /\ pump_tasks[t[1]][t[2]] = "sleeping"}

\* C2: single-pin invariant: two logical steps whose activations are under way at
\* the same instant never drive the same pin
C2_SinglePinInvariant ==
    \A t, u \in Driving : t # u => closure[t[1]].pin # closure[u[1]].pin

\* C3: every exit path of an activation restores the pin: whenever no request is
\* being handled and no activation is under way, no pin is at the active level
C3_PinsInactiveWhenIdle ==
    ((\A q \in FwRequest : handler[q] # "gather") /\ Driving = {}) =>
        \A p \in GpioPin : gpio[p] # "HIGH"

\* C4: with one permit, the activations of two dispense runs never interleave: no
\* run's activation begins after another run's activation has begun since its own.
C4_RunsNeverInterleave ==
    max_parallel_jobs = 1 =>
        \A i, j \in 1..Len(actOrder) : i # j => actOrder[i] # actOrder[j]

\* C5: free permits plus runs between acquisition and release is max_parallel_jobs
C5_PermitConservation ==
    /\ semaphore >= 0
    /\ semaphore + Cardinality(InFlight) = max_parallel_jobs

\* C5 witness: a run timed out, another failed on a rejected step, and both permits
\* of a two-permit semaphore are free again
C5_Witness ==
    \E r, q \in Run :
        /\ pc[r] = "timeout" /\ pc[q] = "failed" /\ activations[q] > 0
        /\ max_parallel_jobs = 2 /\ semaphore = 2

\* C6: queue_depth is the number of requests waiting for the permit
C6_QueueDepthCountsWaiters ==
    queue_depth = Cardinality(Waiting)

\* C7: current_run_id names a run holding a permit whenever one does, else is none
C7_CurrentRunIsInFlight ==
    IF InFlight = {} THEN current_run_id = None ELSE current_run_id \in InFlight

\* the events the sequential policy prescribes for steps k..n
RECURSIVE SequentialEvents(_, _, _)
SequentialEvents(k, n, pause_between) ==
    IF k > n THEN <<>>
    ELSE <<<<"start", k>>, <<"end", k>>>>
         \o (IF k < n /\ pause_between > 0 THEN <<<<"pause", k>>>> ELSE <<>>)
         \o SequentialEvents(k + 1, n, pause_between)

\* C8: a finished sequential run of n steps has activated step 1, paused,
\* activated step 2, ..., activated step n, with no pause after the final step
C8_SequentialOrder ==
    seq_pc = "done" => events = SequentialEvents(1, Len(seq_steps), seq_pause)

\* C9: a request that ends in a validation error of a step drove no pin active and
\* stamped no cooldown
C9_FailFast ==
    \A r \in Run :
        (pc[r] = "failed" /\ resp[r].detail \in ValidationErrors) =>
            /\ activations[r] = 0
            /\ \A p \in DOMAIN cooldowns : cooldowns[p] # r

\* C10: when a step fails, no later step is activated and the error carries the
\* results of the steps that completed before it
C10_ErrorCarriesPartialResults ==
    \A r \in Run :
        (pc[r] = "failed" /\ resp[r].detail \in ValidationErrors) =>
            /\ activations[r] = Len(results[r])
            /\ thr[r] = "none"
            /\ resp[r].results =
                  [i \in 1..Len(results[r]) |-> _build_result(results[r][i])]

\* C11: a request timeout that fires while an activation of the run is under way
\* leaves the worker thread, the lock and the pins as they are; the pin stays
\* active until the thread itself ends the hold, which it eventually does; and
\* the abandoned run starts no further activation
C11_TimeoutDoesNotInterrupt ==
    /\ [][\A r \in Run :
            /\ (pc[r] = "thread" /\ thr[r] = "active" /\ pc'[r] = "timeout") =>
                   (pin' = pin /\ thr' = thr /\ lock' = lock)
            /\ (pc[r] = "timeout" /\ thr[r] \in {"active", "finished"}) =>
                   activations'[r] = activations[r]]_vars
    /\ [](\A r \in Run : (pc[r] = "timeout" /\ thr[r] = "active") =>
              (lock = r /\ pin[get_pin(cur[r].pump)] = "HIGH"))
    /\ \A r \in Run : (pc[r] = "timeout" /\ thr[r] = "active") ~>
              (thr[r] = "finished" /\ pin[get_pin(cur[r].pump)] = "LOW")

\* C11 witness: the caller was answered with the timeout while its pin is active
C11_Witness ==
    \E r \in Run :
        /\ pc[r] = "timeout" /\ resp[r] = ErrorResponse(500, "timeout")
        /\ thr[r] = "active" /\ pin[get_pin(cur[r].pump)] = "HIGH"

\* C12: the pin of an activation of pump p is driven active no earlier than
\* cooldown_seconds after the previous activation of p ended
C12_CooldownRespected ==
    \A c \in TimedCall :
        (t_started[c] # None /\ t_prev_end[c] # None) =>
            t_started[c] >= t_prev_end[c] + cooldown_seconds

\* C12 witness: a call made inside the cooldown of its pump holds its pin active
C12_Witness ==
    \E c \in TimedCall :
        /\ t_thr[c] = "active" /\ t_prev_end[c] # None
        /\ t_requested[c] >= t_prev_end[c]
        /\ t_requested[c] < t_prev_end[c] + cooldown_seconds

\* C13: an activation of the pi-controller starts no earlier than the cooldown
\* of every activation that ended before it, counted from that end
C13_PcCooldownRespected ==
    \A q \in PcRequest, prev \in PcRequest :
        (q # prev /\ pc_started[q] # None /\ pc_ended[prev] # None
              /\ pc_ended[prev] <= pc_started[q]) =>
            pc_started[q] >= pc_ended[prev] + pc_args[prev].cooldown_seconds

\* C14: on the firmware's /iot/drink path no activation under way holds its pin
\* for a duration above the configured max_run_seconds
C14_CeilingNeverBypassed ==
    \A t \in Driving :
        closure[t[1]].duration.number =>
            closure[t[1]].duration.val <= fw_max_run_seconds

\* C16: fan-in barrier: once a request has been answered, none of its pump tasks
\* is still running
C16_FanInBarrier ==
    \A q \in FwRequest :
        handler[q] \in {"ok", "error"} =>
            \A i \in DOMAIN pump_tasks[q] : pump_tasks[q][i] \in {"done", "raised"}

\* C17: independent fault domains: while a pump task of a batch has failed, every
\* other task of the batch still under way keeps its pin active and the
\* failure has not been reported yet
C17_IndependentFailures ==
    \A q \in FwRequest :
        (\E j \in DOMAIN pump_tasks[q] : pump_tasks[q][j] = "raised") =>
            \A i \in DOMAIN pump_tasks[q] :
                pump_tasks[q][i] = "sleeping" =>
                    (gpio[closure[q].pin] = "HIGH" /\ handler[q] = "gather")

\* requests answered by start_dispense for a configured pump while the
\* controller was free
PcAnswered ==
    {q \in PcRequest : /\ pc_resp[q] # NoPcResponse
                       /\ _require_pump(pc_payload[q]) = ""
                       /\ pc_resp[q].status # 409}

\* the requested main duration is above what max_run_seconds leaves after priming
PcExceeds(q) ==
    pc_payload[q].duration_seconds >
        Max2(pc_max_run_seconds - pc_payload[q].prime_seconds, 0)

\* the request was accepted with the clamped duration reported, and the pin was
\* held for the reported prime plus duration
PcClamped(q) ==
    /\ pc_resp[q].status = 200
    /\ pc_resp[q].timing.prime_seconds = pc_payload[q].prime_seconds
    /\ pc_resp[q].timing.prime_seconds + pc_resp[q].timing.duration_seconds
           = pc_max_run_seconds
    /\ pc_task[q] \in {"post", "cooldown", "done"} =>
           pc_held[q] = pc_resp[q].timing.prime_seconds
                           + pc_resp[q].timing.duration_seconds

\* C15 as stated: every request whose duration exceeds the allowed limit is
\* accepted, clamped to prime + duration <= max_run_seconds, and the pin is held
\* for the reported prime + duration
C15_ClampNeverFails ==
    \A q \in PcAnswered : PcExceeds(q) => PcClamped(q)

\* C15, with the precondition it needs: when prime_seconds is below
\* max_run_seconds, a duration that exceeds the allowed limit is accepted,
\* clamped to prime + duration = max_run_seconds, reported so, and the pin is
\* held for the reported prime + duration; with prime_seconds at or above
\* max_run_seconds the request is refused with 400 and no task is created
C15_ClampWhenPrimeBelowLimit ==
    \A q \in PcAnswered :
        PcExceeds(q) =>
            IF pc_payload[q].prime_seconds < pc_max_run_seconds
            THEN PcClamped(q)
            ELSE pc_resp[q].status = 400 /\ pc_task[q] = "none"

\* C15 witness: an over-long request was accepted and its clamped activation has
\* ended
C15_Witness ==
    \E q \in PcAnswered :
        /\ PcExceeds(q) /\ pc_resp[q].status = 200
        /\ pc_resp[q].timing.duration_seconds < pc_payload[q].duration_seconds
        /\ pc_task[q] = "done"
        /\ pc_held[q] = pc_max_run_seconds

\* the tasks of request q were appended for pairwise distinct pins
DistinctPins(q) ==
    \A i, j \in DOMAIN task_pins[q] : i # j => task_pins[q][i] # task_pins[q][j]

\* C18: when the steps of a request resolve to distinct pins, each pump task
\* under way drives the pin of the step it was launched for
C18_EachPinDriven ==
    \A t \in Driving :
        DistinctPins(t[1]) => closure[t[1]].pin = task_pins[t[1]][t[2]]

\* C19: a request with a step whose pump resolves to no pin is answered with an
\* error and launches no pump task
C19_UnmappedRejected ==
    \A q \in FwRequest :
        skipped[q] > 0 => (handler[q] = "error" /\ pump_tasks[q] = <<>>)

\* C20: once the steps of a ratio-based pour have been generated, when every
\* ingredient of the drink is on a pump and some ratio is above zero, the
\* command posted holds exactly the steps of the ratios above zero, in order
C20_ZeroRatioSkipped ==
    \A r \in Pour :
        LET drink == pour_request[r].drink
        IN  (/\ pour_pc[r] \in {"sent", "done"}
             /\ pour_request[r].user_id
             /\ Len(drink.ratios) = Len(drink.ingredients)
             /\ validate_ingredients(drink, pump_config) = ""
             /\ pour_response[r].message \notin {"Missing ingredients",
                    "No pump configuration found", "No pumps are configured"}
             /\ \E i \in 1..Len(drink.ratios) : drink.ratios[i] > 0) =>
                /\ Len(command_payload[r]) =
                       Cardinality({i \in 1..Len(drink.ratios) : drink.ratios[i] > 0})
                /\ \A k \in 1..Len(command_payload[r]) : command_payload[r][k].ratio > 0

\* C21: cleanup() is idempotent: no call of it raises, and a call after the
\* first leaves every pin as the first call left it
C21_CleanupIdempotent ==
    /\ lc_cleanup_raised = 0
    /\ (lc_cleanup_calls >= 1 /\ lc_hardware /\ lc_busy = "") =>
           \A p \in LcPumps : lc_gpio[p] = "IN"

\* C22: when the process has exited, cleanup() has been invoked exactly once
C22_CleanupExactlyOnce ==
    lc_phase = "exited" => lc_cleanup_calls = 1

\* a request that enforce_token would turn away, once it has been answered
Unauthorized(c) ==
    /\ firmware_auth_token # NoToken
    /\ http_request[c].sent
    /\ provided_token(http_request[c]) # firmware_auth_token
    /\ resp[c] # NoResponse

\* C23: with a token configured, a request whose presented token is missing or
\* differs from it is answered 401
C23_MismatchAnswered401 ==
    \A c \in Caller : Unauthorized(c) => resp[c].status = 401

\* C24: a request answered "ok" has had one hold for each of its steps that
\* names a pump with a pin, whether or not RPi.GPIO is there
C24_SimulationHoldsLikeHardware ==
    \A q \in FwRequest :
        handler[q] = "ok" => Len(task_pins[q]) = holds_requested[q]

\* the HTTP call of pour r has failed: no connection, a timeout or a non-2xx status
HttpFailed(r) ==
    /\ pour_pc[r] = "done"
    /\ http_outcome[r] # NoOutcome
    /\ (http_outcome[r].kind # "response" \/ ~is_success(http_outcome[r]))

\* C25: a failed HTTP call to the firmware makes send_drink_request raise, and
\* the /iot/pour response then has status "error" with the reason, never "ok"
C25_HttpFailureIsError ==
    \A r \in Pour :
        HttpFailed(r) =>
            /\ send_drink_request(http_outcome[r]).raised
            /\ pour_response[r] =
                  [status |-> "error", message |-> "Failed to communicate with firmware"]

\* a pour whose POST was answered 500 has been answered "error"
C25_Witness ==
    \E r \in Pour :
        /\ HttpFailed(r)
        /\ http_outcome[r] = Response(500, "")
        /\ pour_response[r].status = "error"

\* C26: while the connection accepted last for the client_id is open, its
\* handler is in its message loop and no newer connection is being accepted,
\* the client_id is registered and mapped to it
C26_LatestOpenIsRegistered ==
    (/\ ws_latest # NoSocket
     /\ ws_state[ws_latest] = "open"
     /\ ws_pc[ws_latest] = "receiving"
     /\ \A c \in Connection : ws_pc[c] \notin {"closing_old", "accepting"})
        => active_connections = ws_latest

PcPendingOrRunning ==
    {q \in PcRequest : pc_task[q] \in {"new", "waitlock", "prime", "main", "post"}}

\* C28: at most one dispense task of the pi-controller is pending or running
C28_AtMostOneTask == Cardinality(PcPendingOrRunning) <= 1

\* C29: no two steps of a posted command name the same pump, and the ratios of
\* its steps sum to at most 100
C29_OneStepPerPump ==
    \A r \in Pour :
        LET steps == command_payload[r]
        IN  /\ \A i, j \in 1..Len(steps) : steps[i].pump_id = steps[j].pump_id => i = j
            /\ sum([k \in 1..Len(steps) |-> steps[k].ratio]) <= 100

\* dispense_steps of run r fails in this step on an empty or unresolvable list
RejectedUnresolved(r) ==
    /\ pc[r] = "idle"
    /\ pc'[r] = "failed"
    /\ resp'[r].status = 400
    /\ resp'[r].detail \in {"no_steps", "unresolvable"}

\* C30: a dispense_steps call that fails on an empty step list or on a step
\* without a resolvable duration leaves queue_depth, current_run_id, the
\* permits, the cooldown timestamps and the pins as they were and runs no step
C30_RejectedBeforeSharedState ==
    [][\A r \in Run :
          RejectedUnresolved(r) =>
              /\ UNCHANGED <<queue_depth, current_run_id, semaphore, waiters,
                             cooldowns, pin, lock, thr, activations, actOrder>>
              /\ todo'[r] = <<>> /\ results'[r] = <<>>]_vars

\* a request with a step given in ml on the pump without a flow rate has been
\* rejected while one run holds the permit with its pin active and another waits
C30_Witness ==
    \E r, q, w \in Run :
        /\ pc[r] = "failed" /\ resp[r] = ErrorResponse(400, "unresolvable")
        /\ thr[q] = "active" /\ current_run_id = q
        /\ pc[w] = "waiting" /\ queue_depth = 1

====
